---- MODULE Spec2Model ----
(***************************************************************************)
(* Model of the whale-activity detection pipeline: the WhaleDetector       *)
(* (src/src/whale_detector.py), the EntityEngine (src/src/entity_engine.py)*)
(* and the HybridTradeMonitor / PolymarketWebSocket ingestion controller   *)
(* (src/src/polymarket_websocket.py).                                      *)
(*                                                                         *)
(* Conventions.                                                            *)
(*  - Time is an integer number of minutes; datetime.now() is the clock    *)
(*    variable now.                                                        *)
(*  - Money is an integer number of US dollars.                            *)
(*  - Edge weights are fixed point with 4 decimals (10000 = 1.0).          *)
(*  - A text (market question, market id, trader address) is a sequence    *)
(*    of fragments; "pattern in text.lower()" holds when some fragment     *)
(*    contains the pattern according to the table Contained.  None and ""  *)
(*    are both the empty sequence: the code tests them with "if text:".    *)
(*  - An entity id "ent_%06d" is modelled by its number: zero padding      *)
(*    keeps the alphabetical order equal to the numeric order.             *)
(***************************************************************************)
EXTENDS Integers, Sequences, FiniteSets, TLC

(***************************************************************************)
(* Generic helpers                                                         *)
(***************************************************************************)
Max(a, b) == IF a >= b THEN a ELSE b

Min(a, b) == IF a <= b THEN a ELSE b

Range(s) == { s[i] : i \in 1..Len(s) }

\* sum(s), the halves summed apart to bound the depth of the evaluation
RECURSIVE SeqSum(_)
SeqSum(s) ==
    IF Len(s) = 0 THEN 0
    ELSE IF Len(s) = 1 THEN s[1]
    ELSE SeqSum(SubSeq(s, 1, Len(s) \div 2)) + SeqSum(SubSeq(s, Len(s) \div 2 + 1, Len(s)))

RECURSIVE SeqMax(_)
SeqMax(s) == IF Len(s) = 1 THEN s[1] ELSE Max(s[1], SeqMax(Tail(s)))

LastN(s, n) == IF Len(s) <= n THEN s ELSE SubSeq(s, Len(s) - n + 1, Len(s))

(***************************************************************************)
(* Text model                                                              *)
(***************************************************************************)
NoText == <<>>

\* For every fragment used by the model, the patterns of the code's keyword
\* lists that occur in it (case-insensitively).
Contained(frag) ==
    CASE frag = "trump"              -> {"trump"}
      [] frag = "election"           -> {"election"}
      [] frag = "bitcoin"            -> {"bitcoin"}
      [] frag = "bitcoin up or down" -> {"bitcoin up or down", "bitcoin"}
      [] frag = "nfl"                -> {"nfl"}
      [] frag = "super bowl"         -> {"super bowl"}
      [] frag = "kxnbatotal"         -> {"nba", "kxnba", "total"}
      [] frag = "kxbtcd"             -> {"kxbtc", "btc"}
      [] OTHER                       -> {}

HasAny(text, patterns) ==
    \E i \in 1..Len(text) : Contained(text[i]) \cap patterns # {}

HIGH_FREQUENCY_MARKET_PATTERNS ==
    {"bitcoin up or down", "btc up or down", "btc-updown", "btc updown",
     "-15m-", "15m-", "-5m-", "5m-", "btc-1h", "bitcoin-1h"}

is_high_frequency_market(market_question, market_id) ==
    \/ HasAny(market_question, HIGH_FREQUENCY_MARKET_PATTERNS)
    \/ HasAny(market_id, HIGH_FREQUENCY_MARKET_PATTERNS)

SPORTS_KEYWORDS ==
    {"nfl", "nba", "mlb", "nhl", "mls", "ncaa", "college football",
     "college basketball", "super bowl", "world series", "stanley cup",
     "championship game", "playoffs", "draft pick", "mvp award",
     "rookie of the year", "touchdown", "home run", "goal scored",
     "points scored", "win total", "spread", "over/under", "moneyline",
     "premier league", "la liga", "bundesliga", "serie a",
     "champions league", "ufc", "boxing", "mma", "wrestling", "tennis",
     "golf", "pga", "olympics", "world cup", "euro 2024", "cricket",
     "rugby", "f1", "formula 1", "nascar", "indy 500", "player prop",
     "game total", "first scorer", "anytime scorer", " vs ", " vs. ", " @ ",
     "lakers", "celtics", "warriors", "bulls", "heat", "knicks", "nets",
     "suns", "bucks", "mavericks", "mavs", "clippers", "nuggets",
     "grizzlies", "pelicans", "thunder", "rockets", "spurs",
     "timberwolves", "wolves", "jazz", "kings", "blazers", "trail blazers",
     "pacers", "hawks", "hornets", "cavaliers", "cavs", "pistons",
     "raptors", "wizards", "magic", "76ers", "sixers", "patriots",
     "cowboys", "eagles", "chiefs", "bills", "dolphins", "jets", "ravens",
     "steelers", "bengals", "browns", "colts", "texans", "titans",
     "jaguars", "broncos", "raiders", "chargers", "commanders", "giants",
     "packers", "bears", "lions", "vikings", "saints", "falcons",
     "panthers", "buccaneers", "bucs", "cardinals", "rams", "seahawks",
     "49ers", "niners"}

SportsTickerPatterns == {"nba", "nfl", "mlb", "nhl", "mls", "ncaa", "ufc", "pga"}

is_sports_market(market_question, market_id) ==
    \/ HasAny(market_question, SPORTS_KEYWORDS)
    \/ HasAny(market_id, SportsTickerPatterns)

\* category_keywords of _detect_category_from_text, in dict order.
CategoryKeywords ==
    << [category |-> "Politics", keywords |->
          {"trump", "biden", "election", "president", "congress", "senate",
           "vote", "democrat", "republican", "governor", "mayor", "party",
           "nominee", "gop", "dnc", "rnc", "political", "pelosi",
           "mccarthy", "desantis", "newsom", "whitmer", "vance", "harris"}],
       [category |-> "Crypto", keywords |->
          {"bitcoin", "btc", "ethereum", "eth", "crypto", "token",
           "blockchain", "solana", "sol", "dogecoin", "doge", "ripple",
           "xrp", "cardano"}],
       [category |-> "Sports", keywords |->
          {"nfl", "nba", "mlb", "nhl", "super bowl", "championship",
           "playoff", "world series", "stanley cup", "premier league",
           "uefa", "fifa", " vs ", " vs. ", " @ ", "lakers", "celtics",
           "warriors", "chiefs", "eagles", "cowboys", "yankees", "dodgers",
           "game", "match"}],
       [category |-> "Finance", keywords |->
          {"stock", "s&p", "nasdaq", "fed", "interest rate", "inflation",
           "gdp", "recession", "market", "dow", "treasury", "unemployment",
           "fomc", "cpi", "jobs report", "earnings"}],
       [category |-> "Entertainment", keywords |->
          {"oscar", "grammy", "emmy", "movie", "album", "celebrity",
           "twitter", "tweet", "streaming", "netflix", "spotify",
           "box office", "billboard", "taylor swift", "beyonce"}],
       [category |-> "Science", keywords |->
          {"ai ", "openai", "climate", "fda", "vaccine", "space", "nasa",
           "weather", "hurricane", "earthquake", "temperature", "gpt",
           "artificial intelligence", "spacex", "launch"}],
       [category |-> "World", keywords |->
          {"war", "ukraine", "russia", "china", "iran", "israel",
           "military", "invasion", "ceasefire", "nato", "sanctions",
           "tariff", "trade war", "north korea", "taiwan", "gaza", "hamas",
           "putin", "zelensky"}] >>

\* Kalshi ticker patterns of _detect_category_from_text (lower-cased), in
\* the order the code tests them.
TickerPatterns ==
    << [category |-> "Sports", patterns |->
          {"kxnba", "kxnfl", "kxmlb", "kxnhl", "kxmve", "kxatp", "kxwta",
           "kxligue", "kxeuroleague", "kxpremier", "kxlaliga", "kxserie",
           "kxbundes", "kxchampions", "kxufc", "kxpga", "kxtennis",
           "sports", "game", "match", "total"}],
       [category |-> "Crypto", patterns |->
          {"kxbtc", "kxeth", "kxsol", "kxdoge", "kxcrypto", "bitcoin",
           "ethereum"}],
       [category |-> "Finance", patterns |->
          {"kxeo", "kxcpi", "kxgdp", "kxjobs", "kxfed", "kxfomc", "kxrate",
           "kxinfl", "kxunemploy", "kxsp500", "kxnasdaq", "kxdow"}],
       [category |-> "Politics", patterns |->
          {"kxtrump", "kxbiden", "kxpres", "kxelect", "kxgov", "kxsen",
           "kxhouse", "kxcongress", "kxdjtvo"}] >>

_detect_category_from_text(text, market_id) ==
    LET textHits == { i \in 1..Len(CategoryKeywords) :
                        HasAny(text, CategoryKeywords[i].keywords) }
        idHits   == { i \in 1..Len(TickerPatterns) :
                        HasAny(market_id, TickerPatterns[i].patterns) }
        first(S) == CHOOSE i \in S : \A j \in S : i <= j
    IN  IF textHits # {} THEN CategoryKeywords[first(textHits)].category
        ELSE IF idHits # {} THEN TickerPatterns[first(idHits)].category
        ELSE "Other"

(***************************************************************************)
(* Configuration (WhaleDetector.__init__)                                  *)
(***************************************************************************)
\* Keyword defaults of WhaleDetector.__init__.  Win rates are percentages.
DefaultConfig ==
    [ whale_threshold_usd       |-> 10000,
      new_wallet_threshold_usd  |-> 1000,
      std_multiplier            |-> 3,
      min_trades_for_stats      |-> 100,
      exclude_sports            |-> TRUE,
      cluster_time_window       |-> 5,
      min_alert_threshold_usd   |-> 2000,
      crypto_min_threshold_usd  |-> 974,
      vip_min_volume            |-> 100000,
      vip_min_win_rate          |-> 55,
      vip_min_large_trades      |-> 5,
      vip_large_trade_threshold |-> 5000,
      min_triggers_required     |-> 2 ]

ExemptWithoutWhale == {"CLUSTER_ACTIVITY", "VIP_WALLET", "ENTITY_ACTIVITY"}

exempt_alert_types == {"WHALE_TRADE", "CLUSTER_ACTIVITY", "VIP_WALLET", "ENTITY_ACTIVITY"}

CryptoExemptWithoutVip == {"CLUSTER_ACTIVITY", "WHALE_TRADE", "SMART_MONEY"}

crypto_exempt_types == {"CLUSTER_ACTIVITY", "WHALE_TRADE", "SMART_MONEY", "VIP_WALLET"}

anonymous_trader_prefixes == {"KALSHI_ANON", "UNKNOWN", "ANONYMOUS"}

max_recent_trades == 10000

\* Window lengths in minutes.
HourMinutes == 60

DayMinutes == 1440

NeverAnonymous(trader_address) == FALSE

\* not trader_address, or trader_address.startswith(prefixes): the address
\* is a sequence of fragments and a prefix is its first fragment.
_is_anonymous_trader(trader_address) ==
    \/ trader_address = <<>>
    \/ trader_address[1] \in anonymous_trader_prefixes

(***************************************************************************)
(* WalletProfile                                                           *)
(***************************************************************************)
NewProfile(address, ts) ==
    [ address               |-> address,
      total_trades          |-> 0,
      total_volume_usd      |-> 0,
      first_seen            |-> ts,
      last_seen             |-> ts,
      markets_traded        |-> {},
      winning_trades        |-> 0,
      losing_trades         |-> 0,
      positions             |-> << >>,
      non_sports_trades     |-> 0,
      non_sports_volume_usd |-> 0,
      recent_trade_times    |-> << >>,
      total_buys            |-> 0,
      total_sells           |-> 0,
      buy_volume_usd        |-> 0,
      sell_volume_usd       |-> 0,
      large_trades_count    |-> 0 ]

\* side.lower()
LowerSide(side) ==
    CASE side = "BUY"  -> "buy"
      [] side = "SELL" -> "sell"
      [] OTHER         -> side

add_trade_timestamp(times, timestamp) == LastN(Append(times, timestamp), 100)

ZeroPosition == [buy_shares |-> 0, buy_usd |-> 0, sell_shares |-> 0, sell_usd |-> 0]

\* positions is the nested dict market_id -> outcome -> aggregates, kept as
\* a function on the pairs <<market_id, outcome>> that have an entry.
update_position(positions, market_id, outcome, side, shares, amount_usd) ==
    LET key == <<market_id, outcome>>
        pos == IF key \in DOMAIN positions THEN positions[key] ELSE ZeroPosition
        new == IF LowerSide(side) = "buy"
                 THEN [pos EXCEPT !.buy_shares = @ + shares, !.buy_usd = @ + amount_usd]
               ELSE IF LowerSide(side) = "sell"
                 THEN [pos EXCEPT !.sell_shares = @ + shares, !.sell_usd = @ + amount_usd]
               ELSE pos
    IN  (key :> new) @@ positions

get_position(profile, market_id, outcome) ==
    LET key == <<market_id, outcome>>
        pos == IF key \in DOMAIN profile.positions
                 THEN profile.positions[key] ELSE ZeroPosition
    IN  [buy_shares |-> pos.buy_shares, buy_usd |-> pos.buy_usd,
         sell_shares |-> pos.sell_shares, sell_usd |-> pos.sell_usd,
         net_shares |-> pos.buy_shares - pos.sell_shares]

OpeningOnlyOnFirstTrade(profile, market_id, outcome, side) ==
    IF <<market_id, outcome>> \notin DOMAIN profile.positions THEN "OPENING"
    ELSE IF LowerSide(side) = "buy" THEN "ADDING" ELSE "CLOSING"

get_position_action(profile, market_id, outcome, side) ==
    LET net_shares == get_position(profile, market_id, outcome).net_shares
    IN  IF net_shares = 0 THEN "OPENING"
        ELSE IF net_shares > 0
          THEN (IF LowerSide(side) = "buy" THEN "ADDING" ELSE "CLOSING")
        ELSE (IF LowerSide(side) = "sell" THEN "ADDING" ELSE "CLOSING")

CountAfter(times, cutoff) == Cardinality({ i \in 1..Len(times) : times[i] > cutoff })

trades_last_hour(profile, t) == CountAfter(profile.recent_trade_times, t - HourMinutes)

trades_last_24h(profile, t) == CountAfter(profile.recent_trade_times, t - DayMinutes)

is_repeat_actor(profile, t) == trades_last_hour(profile, t) >= 3

is_heavy_actor(profile, t) == trades_last_24h(profile, t) >= 10

NewWalletBeforeFirstTrade(profile) == profile.total_trades < 1

NewWalletUnderTenTrades(profile) == profile.total_trades < 10

is_new_wallet(profile) == profile.total_trades < 5

is_focused(profile) ==
    Cardinality(profile.markets_traded) <= 3 /\ profile.total_trades >= 5

HasWinRate(profile) == profile.winning_trades + profile.losing_trades >= 10

\* win_rate >= pct/100, for a profile that has a win rate.
WinRateAtLeast(profile, pct) ==
    /\ HasWinRate(profile)
    /\ 100 * profile.winning_trades
         >= pct * (profile.winning_trades + profile.losing_trades)

is_smart_money(profile) ==
    WinRateAtLeast(profile, 65) /\ profile.total_volume_usd >= 50000

is_vip(profile, min_volume, min_win_rate, min_large_trades) ==
    \/ profile.total_volume_usd >= min_volume
    \/ WinRateAtLeast(profile, min_win_rate)
    \/ profile.large_trades_count >= min_large_trades

score_to_severity(score) ==
    IF score <= 3 THEN "LOW" ELSE IF score <= 6 THEN "MEDIUM" ELSE "HIGH"

_calculate_severity_score(trade, profile, alert_type, t) ==
    LET amountPts == IF trade.amount_usd >= 100000 THEN 4
                     ELSE IF trade.amount_usd >= 50000 THEN 3
                     ELSE IF trade.amount_usd >= 25000 THEN 2
                     ELSE IF trade.amount_usd >= 10000 THEN 1 ELSE 0
        walletPts == (IF is_new_wallet(profile) THEN 2 ELSE 0)
                     + (IF is_smart_money(profile) THEN 2 ELSE 0)
                     + (IF is_focused(profile) THEN 1 ELSE 0)
                     + (IF is_heavy_actor(profile, t) THEN 1 ELSE 0)
                     + (IF is_repeat_actor(profile, t) THEN 1 ELSE 0)
        typePts   == IF alert_type \in {"SMART_MONEY", "NEW_WALLET"} THEN 1
                     ELSE IF alert_type \in {"CONTRARIAN", "CLUSTER_ACTIVITY"} THEN 2
                     ELSE 0
    IN  Max(1, Min(10, 5 + amountPts + walletPts + typePts))

(***************************************************************************)
(* Dict helpers                                                            *)
(***************************************************************************)
Get(f, k, default) == IF k \in DOMAIN f THEN f[k] ELSE default

\* f[k] = v on a copy of f
Put(f, k, v) == (k :> v) @@ f

EmptyDict == << >>

(***************************************************************************)
(* Addresses: str.lower() and the string order used by order_pair          *)
(***************************************************************************)
LowerFrag(frag) ==
    CASE frag = "KALSHI_ANON" -> "kalshi_anon"
      [] frag = "UNKNOWN"     -> "unknown"
      [] frag = "ANONYMOUS"   -> "anonymous"
      [] OTHER                -> frag

Lower(text) == [i \in 1..Len(text) |-> LowerFrag(text[i])]

\* Position of a fragment in Python's string order ("" first, digits before
\* upper case before lower case).
FragRank(frag) ==
    CASE frag = "0xa"         -> 1
      [] frag = "0xb"         -> 2
      [] frag = "0xc"         -> 3
      [] frag = "0xd"         -> 4
      [] frag = "0xf"         -> 5
      [] frag = "0xg"         -> 6
      [] frag = "ANONYMOUS"   -> 7
      [] frag = "KALSHI_ANON" -> 8
      [] frag = "UNKNOWN"     -> 9
      [] frag = "anonymous"   -> 10
      [] frag = "kalshi_anon" -> 11
      [] frag = "unknown"     -> 12
      [] OTHER                -> 13

\* a < b for the one-fragment (or empty) addresses of the model.
StrLess(a, b) ==
    IF a = <<>> THEN b # <<>>
    ELSE IF b = <<>> THEN FALSE
    ELSE FragRank(a[1]) < FragRank(b[1])

order_pair(a, b) == IF StrLess(a, b) THEN <<a, b>> ELSE <<b, a>>

(***************************************************************************)
(* EntityEngine                                                            *)
(***************************************************************************)
WScale == 10000

\* EntityEngine.__init__ defaults; get_entity_engine passes the detector's
\* cluster window, entity_rebuild_seconds=60 and entity_edge_threshold=0.75.
EngineConfig(coord_window) ==
    [ coord_window               |-> coord_window,
      overlap_lookback           |-> 1440,
      entity_rebuild_interval    |-> 1,
      edge_halflife              |-> 1440,
      edge_funder_weight         |-> 9000,
      edge_time_couple_inc       |-> 1800,
      edge_overlap_weight        |-> 4000,
      overlap_min_common_markets |-> 3,
      overlap_jaccard_threshold  |-> 35,
      edge_saturation_k          |-> 55,
      cap_shared_funder          |-> 15000,
      cap_time_coupled           |-> 12000,
      cap_market_overlap         |-> 10000,
      entity_edge_threshold      |-> 7500,
      market_liquidity_window    |-> 60,
      market_importance_min_scale |-> 3500,
      market_importance_max_scale |-> 12500 ]

\* round(10000 * 2^(-k/16)), k = 0..16
Pow2Table ==
    << 10000, 9576, 9170, 8781, 8409, 8052, 7711, 7384, 7071,
       6771, 6484, 6209, 5946, 5694, 5453, 5221, 5000 >>

RECURSIVE Pow2(_)
Pow2(n) == IF n = 0 THEN 1 ELSE 2 * Pow2(n - 1)

\* 0.5 ** (dt / halflife) in fixed point: exact halvings for the whole
\* half-lives, linear interpolation in Pow2Table for the remainder.
_decay_factor(c, dt) ==
    IF c.edge_halflife <= 0 \/ dt <= 0 THEN WScale
    ELSE LET q  == dt \div c.edge_halflife
             r  == dt % c.edge_halflife
             k  == (16 * r) \div c.edge_halflife
             lo == Pow2Table[k + 1]
             hi == Pow2Table[k + 2]
             fr == lo - ((lo - hi) * (16 * r - k * c.edge_halflife)) \div c.edge_halflife
         IN  IF q >= 14 THEN 0 ELSE fr \div Pow2(q)

_clamp(x, lo, hi) == Max(lo, Min(hi, x))

RECURSIVE PruneLeft(_, _)
PruneLeft(dq, cutoff) ==
    IF dq # <<>> /\ dq[1][1] < cutoff THEN PruneLeft(Tail(dq), cutoff) ELSE dq

\* 1 / (1 + log10(1 + volume / 50000)) / 0.77 for the volumes the model
\* produces (cash is 0 or 450000 a trade), rounded to 4 decimals.
ScaleOfVolume(volume) ==
    CASE volume = 0       -> 12987
      [] volume = 450000  -> 6494
      [] volume = 900000  -> 5699
      [] volume = 1350000 -> 5307
      [] volume = 1800000 -> 5057
      [] volume = 2250000 -> 4877
      [] OTHER            -> 4739

\* The pruned deque and the scale.
_market_scale(c, market_trades, market_id, timestamp) ==
    LET dq     == PruneLeft(Get(market_trades, market_id, <<>>),
                            timestamp - c.market_liquidity_window)
        volume == SeqSum([i \in 1..Len(dq) |-> dq[i][2]])
    IN  [ market_trades |-> IF market_id \in DOMAIN market_trades
                              THEN Put(market_trades, market_id, dq)
                              ELSE market_trades,
          scale |-> _clamp(ScaleOfVolume(volume),
                           c.market_importance_min_scale,
                           c.market_importance_max_scale) ]

NewEdge(t) ==
    [ weight |-> 0, evidence |-> EmptyDict, evidence_counts |-> EmptyDict,
      last_updated |-> t ]

SumEvidence(ev) ==
    LET RECURSIVE S(_)
        S(D) == IF D = {} THEN 0
                ELSE LET k == CHOOSE x \in D : TRUE IN ev[k] + S(D \ {k})
    IN  S(DOMAIN ev)

\* Every sample adds its saturated weight, whatever the signal has reached.
AddEdgeSignalUncapped(c, edges, t, wallet_a, wallet_b, signal, base_weight, cap, timestamp) ==
    IF wallet_a = wallet_b THEN edges
    ELSE
      LET key         == order_pair(wallet_a, wallet_b)
          edge        == Get(edges, key, NewEdge(t))
          decay       == _decay_factor(c, timestamp - edge.last_updated)
          decayed     == [sig \in DOMAIN edge.evidence |->
                             (edge.evidence[sig] * decay) \div WScale]
          prev_count  == Get(edge.evidence_counts, signal, 0)
          saturated   == (base_weight * 100) \div (100 + c.edge_saturation_k * prev_count)
          prev_weight == Get(decayed, signal, 0)
          evidence    == Put(decayed, signal, prev_weight + saturated)
      IN  Put(edges, key,
              [ weight          |-> SumEvidence(evidence),
                evidence        |-> evidence,
                evidence_counts |-> Put(edge.evidence_counts, signal, prev_count + 1),
                last_updated    |-> timestamp ])

\* t is datetime.now(), the default last_updated of a new WalletEdge.
_add_edge_signal(c, edges, t, wallet_a, wallet_b, signal, base_weight, cap, timestamp) ==
    IF wallet_a = wallet_b THEN edges
    ELSE
      LET key         == order_pair(wallet_a, wallet_b)
          edge        == Get(edges, key, NewEdge(t))
          decay       == _decay_factor(c, timestamp - edge.last_updated)
          decayed     == [sig \in DOMAIN edge.evidence |->
                             (edge.evidence[sig] * decay) \div WScale]
          prev_count  == Get(edge.evidence_counts, signal, 0)
          saturated   == (base_weight * 100) \div (100 + c.edge_saturation_k * prev_count)
          prev_weight == Get(decayed, signal, 0)
          remaining   == Max(0, cap - prev_weight)
          add_weight  == Min(saturated, remaining)
          evidence    == Put(decayed, signal, prev_weight + add_weight)
      IN  Put(edges, key,
              [ weight          |-> SumEvidence(evidence),
                evidence        |-> evidence,
                evidence_counts |-> Put(edge.evidence_counts, signal, prev_count + 1),
                last_updated    |-> timestamp ])

\* State of a new EntityEngine created at time t.
NewEngine(coord_window, t) ==
    [ config           |-> EngineConfig(coord_window),
      edges            |-> EmptyDict,
      entities         |-> EmptyDict,
      wallet_to_entity |-> EmptyDict,
      _entity_seq      |-> 0,
      _recent_by_market |-> EmptyDict,
      _wallet_markets  |-> EmptyDict,
      _market_wallets  |-> EmptyDict,
      _wallet_funders  |-> EmptyDict,
      _funder_wallets  |-> EmptyDict,
      _market_trades   |-> EmptyDict,
      _last_rebuild    |-> t ]

set_wallet_funder(eng, wallet, funder) ==
    [eng EXCEPT
       !._wallet_funders = Put(@, Lower(wallet), Lower(funder)),
       !._funder_wallets = Put(@, Lower(funder),
                               Get(@, Lower(funder), {}) \cup {Lower(wallet)})]

\* One _add_edge_signal per element of a set of peers (distinct edges).
RECURSIVE AddSignalToPeers(_, _, _, _, _, _, _, _, _)
AddSignalToPeers(c, edges, t, wallet, peers, signal, base_weight, cap, timestamp) ==
    IF peers = {} THEN edges
    ELSE LET peer == CHOOSE x \in peers : TRUE
         IN  AddSignalToPeers(c,
                 _add_edge_signal(c, edges, t, wallet, peer, signal, base_weight, cap, timestamp),
                 t, wallet, peers \ {peer}, signal, base_weight, cap, timestamp)

\* "for other_ts, other_wallet in dq": one _add_edge_signal per deque entry,
\* in deque order, the entries of the first half before those of the second.
\* The entries of the wallet itself are skipped.  (The second disjunct of the
\* test has edges evaluated before the entries are gone through, which bounds
\* the depth of the evaluation.)
RECURSIVE AddTimeCoupled(_, _, _, _, _, _, _)
AddTimeCoupled(c, edges, t, wallet, dq, scale, timestamp) ==
    IF dq = <<>> \/ (DOMAIN edges = {} /\ Len(dq) = 0) THEN edges
    ELSE IF Len(dq) = 1
      THEN IF dq[1][2] # wallet
             THEN _add_edge_signal(c, edges, t, wallet, dq[1][2], "time_coupled",
                      (c.edge_time_couple_inc * scale) \div WScale,
                      c.cap_time_coupled, timestamp)
             ELSE edges
    ELSE AddTimeCoupled(c,
             AddTimeCoupled(c, edges, t, wallet, SubSeq(dq, 1, Len(dq) \div 2),
                            scale, timestamp),
             t, wallet, SubSeq(dq, Len(dq) \div 2 + 1, Len(dq)), scale, timestamp)

\* candidate_common[other_wallet]: markets of my_markets whose deque holds the peer
CandidateCommon(my_markets, market_wallets, other_wallet) ==
    Cardinality({ m \in DOMAIN my_markets :
        \E i \in 1..Len(Get(market_wallets, m, <<>>)) :
            market_wallets[m][i][2] = other_wallet })

\* add_weight of the market_overlap sample; 0 when the peer is skipped.
OverlapWeight(c, my_markets, wallet_markets, market_wallets, other_wallet, scale) ==
    LET common == CandidateCommon(my_markets, market_wallets, other_wallet)
        other_markets == Get(wallet_markets, other_wallet, EmptyDict)
        other_count == IF DOMAIN other_markets # {}
                         THEN Cardinality(DOMAIN other_markets) ELSE common
        union == Max(1, Cardinality(DOMAIN my_markets) + other_count - common)
    IN  IF common < c.overlap_min_common_markets THEN 0
        ELSE IF 100 * common < c.overlap_jaccard_threshold * union THEN 0
        ELSE IF 10 * common >= 6 * union
          THEN (c.edge_overlap_weight * scale) \div WScale
        ELSE (((c.edge_overlap_weight * 10 * common) \div (6 * union)) * scale) \div WScale

RECURSIVE AddOverlap(_, _, _, _, _, _, _, _, _, _)
AddOverlap(c, edges, t, wallet, others, my_markets, wallet_markets, market_wallets, scale, timestamp) ==
    IF others = {} THEN edges
    ELSE LET o == CHOOSE x \in others : TRUE
             w == OverlapWeight(c, my_markets, wallet_markets, market_wallets, o, scale)
         IN  AddOverlap(c,
                 IF w > 0
                   THEN _add_edge_signal(c, edges, t, wallet, o, "market_overlap",
                                         w, c.cap_market_overlap, timestamp)
                   ELSE edges,
                 t, wallet, others \ {o}, my_markets, wallet_markets, market_wallets,
                 scale, timestamp)

\* on_trade up to, and excluding, its final maybe_rebuild_entities call.
on_trade_update(eng, t, wallet0, market_id, timestamp, funder, cash) ==
    LET c == eng.config
        wallet == Lower(wallet0)
        mt1 == IF cash > 0
                 THEN Put(eng._market_trades, market_id,
                          Append(Get(eng._market_trades, market_id, <<>>),
                                 <<timestamp, cash>>))
                 ELSE eng._market_trades
        ms == _market_scale(c, mt1, market_id, timestamp)
        scale == ms.scale
        e1 == IF funder # NoText THEN set_wallet_funder(eng, wallet, funder) ELSE eng
        myfunder == Get(e1._wallet_funders, wallet, NoText)
        peers == IF myfunder # NoText
                   THEN Get(e1._funder_wallets, myfunder, {}) \ {wallet} ELSE {}
        edges1 == AddSignalToPeers(c, e1.edges, t, wallet, peers, "shared_funder",
                                   c.edge_funder_weight, c.cap_shared_funder, timestamp)
        dq == PruneLeft(Get(e1._recent_by_market, market_id, <<>>),
                        timestamp - c.coord_window)
        edges2 == AddTimeCoupled(c, edges1, t, wallet, dq, scale, timestamp)
        overlap_cutoff == timestamp - c.overlap_lookback
        wm0 == Put(Get(e1._wallet_markets, wallet, EmptyDict), market_id, timestamp)
        my_markets == [m \in { x \in DOMAIN wm0 : wm0[x] >= overlap_cutoff } |-> wm0[m]]
        wallet_markets == Put(e1._wallet_markets, wallet, my_markets)
        market_wallets == Put(e1._market_wallets, market_id,
                              Append(PruneLeft(Get(e1._market_wallets, market_id, <<>>),
                                               overlap_cutoff),
                                     <<timestamp, wallet>>))
        others == UNION { { market_wallets[m][i][2] : i \in 1..Len(market_wallets[m]) } :
                            m \in DOMAIN my_markets \cap DOMAIN market_wallets } \ {wallet}
        edges3 == IF Cardinality(DOMAIN my_markets) >= c.overlap_min_common_markets
                    THEN AddOverlap(c, edges2, t, wallet, others, my_markets,
                                    wallet_markets, market_wallets, scale, timestamp)
                    ELSE edges2
    IN  [e1 EXCEPT !.edges = edges3,
                   !._market_trades = ms.market_trades,
                   !._recent_by_market = Put(@, market_id, Append(dq, <<timestamp, wallet>>)),
                   !._wallet_markets = wallet_markets,
                   !._market_wallets = market_wallets]

\* decayed_weight of rebuild_entities for the edge of key at time t.
decayed_weight(eng, t, key) ==
    (eng.edges[key].weight *
       _decay_factor(eng.config, t - eng.edges[key].last_updated)) \div WScale

\* Edges whose decayed weight reaches the entity threshold at time t.
ValidEdges(eng, t) ==
    { key \in DOMAIN eng.edges :
        decayed_weight(eng, t, key) >= eng.config.entity_edge_threshold }

\* The dict returned for the edge between two wallets, << >> for None.
get_edge_details(eng, wallet_a, wallet_b) ==
    LET key == order_pair(Lower(wallet_a), Lower(wallet_b))
    IN  IF key \notin DOMAIN eng.edges THEN << >>
        ELSE << [ wallet_a     |-> key[1],
                  wallet_b     |-> key[2],
                  weight       |-> eng.edges[key].weight,
                  evidence     |-> eng.edges[key].evidence,
                  counts       |-> eng.edges[key].evidence_counts,
                  last_updated |-> eng.edges[key].last_updated ] >>

\* UnionFind: the set of wallets connected to S through the edges E.
RECURSIVE Closure(_, _)
Closure(S, E) ==
    LET N == S \cup { key[1] : key \in { k \in E : k[2] \in S } }
                \cup { key[2] : key \in { k \in E : k[1] \in S } }
    IN  IF N = S THEN S ELSE Closure(N, E)

\* "components": every wallet of a valid edge is in a component of size >= 2.
Components(E) ==
    { Closure({w}, E) : w \in { k[1] : k \in E } \cup { k[2] : k \in E } }

\* The orders in which "for root, wallets in components.items()" may run:
\* components is filled while iterating a set of strings.
Orders(S) ==
    { f \in [1..Cardinality(S) -> S] :
        \A i, j \in 1..Cardinality(S) : i # j => f[i] # f[j] }

\* No entity id is ever reused.
NoBestEid(old_wallet_to_entity, wallets) == 0

\* sorted(entity_counts.items(), key=(-count, id))[0][0]; 0 when entity_counts is empty.
\* Entity ids "ent_%06d" are compared as strings, which for ids below one million
\* is the order of their numbers.
BestEid(old_wallet_to_entity, wallets) ==
    LET ids == { old_wallet_to_entity[w] : w \in wallets \cap DOMAIN old_wallet_to_entity }
        cnt(e) == Cardinality({ w \in wallets \cap DOMAIN old_wallet_to_entity :
                                  old_wallet_to_entity[w] = e })
    IN  IF ids = {} THEN 0
        ELSE CHOOSE e \in ids :
               \A o \in ids : cnt(e) > cnt(o) \/ (cnt(e) = cnt(o) /\ e <= o)

\* First loop of rebuild_entities: comp_to_entity_id, as [ids, seq].
RECURSIVE AssignIds(_, _, _, _, _)
AssignIds(order, i, old_wallet_to_entity, ids, seq) ==
    IF i > Len(order) THEN [ids |-> ids, seq |-> seq]
    ELSE LET best == BestEid(old_wallet_to_entity, order[i])
         IN  IF best # 0
               THEN AssignIds(order, i + 1, old_wallet_to_entity, Append(ids, best), seq)
               ELSE AssignIds(order, i + 1, old_wallet_to_entity,
                              Append(ids, seq + 1), seq + 1)

\* Second loop of rebuild_entities: new_entities and wallet_to_entity.
RECURSIVE BuildEntities(_, _, _, _, _, _, _)
BuildEntities(order, ids, i, old_entities, t, new_entities, wallet_to_entity) ==
    IF i > Len(order) THEN [entities |-> new_entities, wallet_to_entity |-> wallet_to_entity]
    ELSE LET wallets == order[i]
             entity  == [ entity_id  |-> ids[i],
                          wallets    |-> wallets,
                          confidence |-> Min(50 + 10 * (Cardinality(wallets) - 2), 95),
                          created_at |-> IF ids[i] \in DOMAIN old_entities
                                           THEN old_entities[ids[i]].created_at ELSE t,
                          updated_at |-> t ]
         IN  BuildEntities(order, ids, i + 1, old_entities, t,
                 Put(new_entities, ids[i], entity),
                 [w \in DOMAIN wallet_to_entity \cup wallets |->
                     IF w \in wallets THEN ids[i] ELSE wallet_to_entity[w]])

RebuildInOrder(eng, t, order) ==
    LET a == AssignIds(order, 1, eng.wallet_to_entity, <<>>, eng._entity_seq)
        b == BuildEntities(order, a.ids, 1, eng.entities, t, EmptyDict, EmptyDict)
    IN  [eng EXCEPT !.entities = b.entities,
                    !.wallet_to_entity = b.wallet_to_entity,
                    !._entity_seq = a.seq]

\* The states rebuild_entities may leave, one per iteration order.
rebuild_entities(eng, t) ==
    { RebuildInOrder(eng, t, order) : order \in Orders(Components(ValidEdges(eng, t))) }

maybe_rebuild_entities(eng, t) ==
    IF t - eng._last_rebuild < eng.config.entity_rebuild_interval THEN {eng}
    ELSE rebuild_entities([eng EXCEPT !._last_rebuild = t], t)

on_trade(eng, t, wallet, market_id, timestamp, funder, cash) ==
    maybe_rebuild_entities(
        on_trade_update(eng, t, wallet, market_id, timestamp, funder, cash), t)

\* The Entity of the wallet, or NoEntity for None.
NoEntity == [entity_id |-> 0, wallets |-> {}, confidence |-> 0, created_at |-> 0,
             updated_at |-> 0]

get_entity_for_wallet(eng, wallet) ==
    LET entity_id == Get(eng.wallet_to_entity, Lower(wallet), 0)
    IN  IF entity_id # 0 THEN Get(eng.entities, entity_id, NoEntity) ELSE NoEntity

(***************************************************************************)
(* WhaleDetector                                                           *)
(***************************************************************************)
\* _entity_engine is <<>> for None and <<engine>> once created.
NewDetector(cfg) ==
    [ config               |-> cfg,
      wallet_profiles      |-> EmptyDict,
      recent_trade_sizes   |-> << >>,
      market_stats         |-> EmptyDict,
      recent_market_trades |-> EmptyDict,
      wallet_clusters      |-> EmptyDict,
      market_hourly_volume |-> EmptyDict,
      market_questions     |-> EmptyDict,
      market_categories    |-> EmptyDict,
      _entity_engine       |-> << >> ]

_update_wallet_profile(d, trade, market_question) ==
    LET address == trade.trader_address
        p0 == Get(d.wallet_profiles, address, NewProfile(address, trade.timestamp))
        isBuy  == LowerSide(trade.side) = "buy"
        isSell == LowerSide(trade.side) = "sell"
        nonSports == ~is_sports_market(market_question, trade.market_id)
        p1 == [p0 EXCEPT
                 !.total_trades = @ + 1,
                 !.total_volume_usd = @ + trade.amount_usd,
                 !.last_seen = trade.timestamp,
                 !.markets_traded = @ \cup {trade.market_id},
                 !.recent_trade_times = add_trade_timestamp(@, trade.timestamp),
                 !.total_buys = IF isBuy THEN @ + 1 ELSE @,
                 !.buy_volume_usd = IF isBuy THEN @ + trade.amount_usd ELSE @,
                 !.total_sells = IF isSell THEN @ + 1 ELSE @,
                 !.sell_volume_usd = IF isSell THEN @ + trade.amount_usd ELSE @,
                 !.large_trades_count =
                     IF trade.amount_usd >= d.config.vip_large_trade_threshold
                       THEN @ + 1 ELSE @,
                 !.positions = update_position(@, trade.market_id, trade.outcome,
                                               trade.side, trade.size, trade.amount_usd),
                 !.non_sports_trades = IF nonSports THEN @ + 1 ELSE @,
                 !.non_sports_volume_usd = IF nonSports THEN @ + trade.amount_usd ELSE @]
    IN  [d EXCEPT !.wallet_profiles = Put(@, address, p1)]

_update_market_stats(d, trade) ==
    [d EXCEPT !.market_stats =
        Put(@, trade.market_id,
            LastN(Append(Get(@, trade.market_id, << >>), trade.amount_usd), 1000))]

\* An entry (addr, ts, amt) of recent_market_trades is <<addr, ts, amt>> when
\* ts is offset-naive and <<addr, ts, amt, tzinfo>> when it is offset-aware.
AwareEntries(entries) == { i \in DOMAIN entries : Len(entries[i]) = 4 }

\* t is datetime.now(), which is offset-naive: "ts > cutoff" raises TypeError
\* at an offset-aware ts, after the append and before the list is replaced.
\* (The profile keeps such a timestamp in recent_trade_times as well; the
\* trades with one are all on one market, where this comparison comes first.)
_update_cluster_tracking(d, t, trade) ==
    LET entry    == IF trade.tzinfo = << >>
                      THEN <<trade.trader_address, trade.timestamp, trade.amount_usd>>
                      ELSE <<trade.trader_address, trade.timestamp, trade.amount_usd,
                             trade.tzinfo>>
        appended == Append(Get(d.recent_market_trades, trade.market_id, << >>), entry)
        cutoff   == t - d.config.cluster_time_window * 6
    IN  [d EXCEPT !.recent_market_trades =
            Put(@, trade.market_id,
                IF AwareEntries(appended) # {} THEN appended
                ELSE SelectSeq(appended, LAMBDA e : e[2] > cutoff))]

\* The other wallets of the window whatever the size of their trades.
RelatedWalletsAnySize(d, trade) ==
    LET recent == Get(d.recent_market_trades, trade.market_id, << >>)
        cutoff == trade.timestamp - d.config.cluster_time_window
    IN  SelectSeq(recent, LAMBDA e : e[2] > cutoff /\ e[1] # trade.trader_address)

\* The related wallets of the trade, with repetitions, in list order.
RelatedWallets(d, trade) ==
    LET recent == Get(d.recent_market_trades, trade.market_id, << >>)
        cutoff == trade.timestamp - d.config.cluster_time_window
        window_trades == SelectSeq(recent,
            LAMBDA e : e[2] > cutoff /\ e[1] # trade.trader_address)
    IN  SelectSeq(window_trades,
            LAMBDA e : /\ trade.amount_usd > 0
                       /\ 2 * e[3] >= trade.amount_usd
                       /\ e[3] <= 2 * trade.amount_usd)

\* The cluster members, or {} for None.
ClusterMembers(d, trade) ==
    LET recent  == Get(d.recent_market_trades, trade.market_id, << >>)
        related == RelatedWallets(d, trade)
    IN  IF Len(recent) < 2 THEN {}
        ELSE IF Len(related) >= 1 /\ trade.amount_usd >= 1000
          THEN {trade.trader_address} \cup { related[i][1] : i \in 1..Len(related) }
        ELSE {}

\* _detect_cluster_activity: the detector after the call; its result is
\* ClusterMembers(d, trade).
_detect_cluster_activity(d, trade) ==
    LET members == ClusterMembers(d, trade)
        c0 == Get(d.wallet_clusters, members,
                  [first_seen |-> trade.timestamp, markets |-> {}, total_volume |-> 0,
                   trade_count |-> 0, last_seen |-> trade.timestamp])
    IN  IF members = {} THEN d
        ELSE [d EXCEPT !.wallet_clusters =
                Put(@, members,
                    [c0 EXCEPT !.markets = @ \cup {trade.market_id},
                               !.total_volume = @ + trade.amount_usd,
                               !.trade_count = @ + 1,
                               !.last_seen = trade.timestamp])]

_update_market_volume(d, t, trade) ==
    LET old == Get(d.market_hourly_volume, trade.market_id,
                   [trades |-> << >>, volume |-> 0, last_updated |-> t])
        kept == SelectSeq(Append(old.trades, <<trade.timestamp, trade.amount_usd>>),
                          LAMBDA e : e[1] > t - HourMinutes)
    IN  [d EXCEPT !.market_hourly_volume =
            Put(@, trade.market_id,
                [trades |-> kept,
                 volume |-> SeqSum([i \in 1..Len(kept) |-> kept[i][2]]),
                 last_updated |-> t])]

ImpactRatioUnknown(d, trade, num, den) == FALSE

\* impact_ratio >= num/den
ImpactRatioAtLeast(d, trade, num, den) ==
    LET known == trade.market_id \in DOMAIN d.market_hourly_volume
        vol   == IF known THEN d.market_hourly_volume[trade.market_id].volume ELSE 0
    IN  IF vol <= 0 THEN den >= num
        ELSE den * trade.amount_usd >= num * vol

\* z-score of the amount against recent_trade_sizes is defined (enough data,
\* stdev # 0) and at least k.  With n sizes of sum S and sum of squares Q,
\* mean = S/n and stdev^2 = (n*Q - S^2) / (n*(n-1)), so that
\* z >= k  iff  n*a - S >= 0  and  (n*a - S)^2 * (n-1) >= k^2 * n * (n*Q - S^2),
\* and the latter, with x = (n*a - S)^2 and V = n*Q - S^2, iff
\* (x div V) * (n-1) + ((x mod V) * (n-1)) div V >= k^2 * n, the form that
\* stays within 32 bits for some hundred sizes.
\* Amounts are multiples of $100 and enter in units of $100.
ZScoreAtLeast(d, amount, k) ==
    LET sizes == [i \in 1..Len(d.recent_trade_sizes) |-> d.recent_trade_sizes[i] \div 100]
        n == Len(sizes)
        S == SeqSum(sizes)
        Q == SeqSum([i \in 1..n |-> sizes[i] * sizes[i]])
        V == n * Q - S * S
        D == n * (amount \div 100) - S
    IN  IF n < d.config.min_trades_for_stats THEN FALSE
        ELSE IF V = 0 THEN FALSE
        ELSE D >= 0 /\ ((D * D) \div V) * (n - 1) + (((D * D) % V) * (n - 1)) \div V
                          >= k * k * n

_is_statistically_unusual(d, amount) ==
    ZScoreAtLeast(d, amount, d.config.std_multiplier)

\* One entry of triggered_conditions: its type, the head of its message and
\* its score.
Cond(b, alert_type, message, score) ==
    IF b THEN << [type |-> alert_type, message |-> message, score |-> score] >> ELSE << >>

\* The detector battery of analyze_trade, in the order of the code.  A message is
\* the head of its text, before the amounts formatted into it.
\* cluster_wallets is the result of _detect_cluster_activity ({} for None, and
\* when the trader is anonymous).
TriggeredConditions(d, t, trade, profile, cluster_wallets) ==
    LET cfg    == d.config
        amount == trade.amount_usd
        anon   == _is_anonymous_trader(trade.trader_address)
        entity == IF anon \/ d._entity_engine = << >> THEN NoEntity
                  ELSE get_entity_for_wallet(d._entity_engine[1], trade.trader_address)
    IN  Cond(amount >= cfg.whale_threshold_usd, "WHALE_TRADE", "WHALE ALERT",
             _calculate_severity_score(trade, profile, "WHALE_TRADE", t))
     \o Cond(_is_statistically_unusual(d, amount) /\ amount < cfg.whale_threshold_usd,
             "UNUSUAL_SIZE", "UNUSUAL TRADE",
             IF ZScoreAtLeast(d, amount, cfg.std_multiplier + 2) THEN 8 ELSE 6)
     \o Cond(is_new_wallet(profile) /\ amount >= cfg.new_wallet_threshold_usd /\ ~anon,
             "NEW_WALLET", "NEW WALLET", IF amount >= 5000 THEN 8 ELSE 6)
     \o Cond(is_smart_money(profile) /\ amount >= 500 /\ ~anon, "SMART_MONEY", "SMART MONEY", 9)
     \o Cond(~anon /\ is_vip(profile, cfg.vip_min_volume, cfg.vip_min_win_rate,
                             cfg.vip_min_large_trades),
             "VIP_WALLET", "VIP WALLET", 8)
     \o Cond(is_repeat_actor(profile, t) /\ amount >= 1000 /\ ~anon, "REPEAT_ACTOR", "REPEAT ACTOR", 7)
     \o Cond(is_heavy_actor(profile, t) /\ amount >= 500 /\ ~anon, "HEAVY_ACTOR", "HEAVY ACTOR", 8)
     \o Cond(cluster_wallets # {} /\ Cardinality(cluster_wallets) >= 2 /\ amount >= 2000,
             "CLUSTER_ACTIVITY", "CLUSTER DETECTED", 9)
     \o Cond(ImpactRatioAtLeast(d, trade, 25, 100) /\ amount >= 1000,
             "HIGH_IMPACT", "HIGH IMPACT", IF ImpactRatioAtLeast(d, trade, 50, 100) THEN 8 ELSE 7)
     \o Cond(entity # NoEntity /\ Cardinality(entity.wallets) >= 2 /\ amount >= 1000,
             "ENTITY_ACTIVITY", "ENTITY DETECTED", 9)

KeepsEveryCondition(cfg, trade, triggered_conditions) == triggered_conditions

\* filtered_conditions
FilteredConditions(cfg, trade, triggered_conditions) ==
    SelectSeq(triggered_conditions,
        LAMBDA c : \/ trade.amount_usd >= cfg.min_alert_threshold_usd
                   \/ c.type \in exempt_alert_types)

AlertTypesNewestFirst(conditions) ==
    [i \in 1..Len(conditions) |-> conditions[Len(conditions) + 1 - i].type]

AlertTypes(conditions) == [i \in 1..Len(conditions) |-> conditions[i].type]

MultiSignalOff(cfg, filtered_conditions) == TRUE

\* The multi-signal gate lets the filtered conditions through.
PassesMultiSignal(cfg, filtered_conditions) ==
    \/ \E i \in 1..Len(filtered_conditions) :
          filtered_conditions[i].type \in exempt_alert_types
    \/ Len(filtered_conditions) >= cfg.min_triggers_required

CryptoGateOff(cfg, trade, market_category, filtered_conditions) == TRUE

\* The crypto gate lets the alert through.
PassesCryptoGate(cfg, trade, market_category, filtered_conditions) ==
    \/ market_category # "Crypto"
    \/ trade.amount_usd >= cfg.crypto_min_threshold_usd
    \/ \E i \in 1..Len(filtered_conditions) :
          filtered_conditions[i].type \in crypto_exempt_types

FirstSeverityScore(filtered_conditions) == filtered_conditions[1].score

MaxSeverityScore(filtered_conditions) ==
    SeqMax([i \in 1..Len(filtered_conditions) |-> filtered_conditions[i].score])

\* position_action taken from the profile after the trade has been applied.
PositionActionAfterUpdate(d, trade) ==
    get_position_action(
        [positions |-> update_position(
             IF trade.trader_address \in DOMAIN d.wallet_profiles
               THEN d.wallet_profiles[trade.trader_address].positions ELSE << >>,
             trade.market_id, trade.outcome, trade.side, trade.size, trade.amount_usd)],
        trade.market_id, trade.outcome, trade.side)

\* position_action, from the profile as it is when analyze_trade is entered.
ExistingPositionAction(d, trade) ==
    IF trade.trader_address \in DOMAIN d.wallet_profiles
      THEN get_position_action(d.wallet_profiles[trade.trader_address],
                               trade.market_id, trade.outcome, trade.side)
      ELSE "OPENING"

\* get_entity_engine: the engine is created on first use, at time t.
get_entity_engine(d, t) ==
    IF d._entity_engine = << >>
      THEN NewEngine(d.config.cluster_time_window, t)
      ELSE d._entity_engine[1]

\* process_trade_for_entity: the detectors it may leave (see rebuild_entities).
process_trade_for_entity(d, t, trade) ==
    { [d EXCEPT !._entity_engine = <<eng>>] :
        eng \in on_trade(get_entity_engine(d, t), t, trade.trader_address,
                         trade.market_id, trade.timestamp, NoText, 0) }

\* What one call of analyze_trade returns and leaves, with the locals the
\* properties speak about.  stage names the return statement taken.
Result(d, stage, alerts, position_action, triggered_conditions, filtered_conditions) ==
    [ detector |-> d, stage |-> stage, alerts |-> alerts,
      position_action |-> position_action,
      triggered_conditions |-> triggered_conditions,
      filtered_conditions |-> filtered_conditions ]

\* analyze_trade from the detector battery on; d has every store updated.
Consolidate(d, t, trade, market_question, position_action) ==
    LET cfg       == d.config
        anon      == _is_anonymous_trader(trade.trader_address)
        profile   == d.wallet_profiles[trade.trader_address]
        cluster_wallets == IF anon THEN {} ELSE ClusterMembers(d, trade)
        d1        == IF anon THEN d ELSE _detect_cluster_activity(d, trade)
        triggered == TriggeredConditions(d, t, trade, profile, cluster_wallets)
        filtered  == FilteredConditions(cfg, trade, triggered)
        market_category == Get(d.market_categories, trade.market_id, "Other")
        score     == MaxSeverityScore(filtered)
        alert     == [ alert_types     |-> AlertTypes(filtered),
                       messages        |-> [i \in 1..Len(filtered) |-> filtered[i].message],
                       severity        |-> score_to_severity(score),
                       severity_score  |-> score,
                       trade           |-> trade,
                       market_question |-> market_question,
                       is_sports_market |-> is_sports_market(market_question, trade.market_id),
                       category        |-> market_category,
                       position_action |-> position_action ]
    IN  IF triggered = << >>
          THEN Result(d1, "no_trigger", << >>, position_action, triggered, << >>)
        ELSE IF filtered = << >>
          THEN Result(d1, "below_threshold", << >>, position_action, triggered, filtered)
        ELSE IF ~PassesMultiSignal(cfg, filtered)
          THEN Result(d1, "multi_signal", << >>, position_action, triggered, filtered)
        ELSE IF ~PassesCryptoGate(cfg, trade, market_category, filtered)
          THEN Result(d1, "crypto", << >>, position_action, triggered, filtered)
        ELSE Result(d1, "alert", <<alert>>, position_action, triggered, filtered)

SportsNeverSkipped(d, trade, market_question) == FALSE

\* "if self.exclude_sports and is_sports: return []"
SkipsSports(d, trade, market_question) ==
    d.config.exclude_sports /\ is_sports_market(market_question, trade.market_id)

\* "if is_high_frequency_market(...): return []"
SkipsHighFrequency(d, trade, market_question) ==
    is_high_frequency_market(market_question, trade.market_id)

\* analyze_trade(trade, market_question) called at time t: the set of possible
\* results (one, unless a rebuild of the entities can assign ids in several orders).
\* stage "raised" is an exception leaving the call, with the stores as they are then.
analyze_trade(d, t, trade, market_question) ==
    IF SkipsSports(d, trade, market_question)
      THEN { Result(d, "sports", << >>, "", << >>, << >>) }
    ELSE IF SkipsHighFrequency(d, trade, market_question)
      THEN { Result(d, "high_frequency", << >>, "", << >>, << >>) }
    ELSE
      LET d1 == IF market_question # NoText
                  THEN [d EXCEPT !.market_questions =
                                   Put(@, trade.market_id, market_question)]
                  ELSE d
          d2 == IF trade.market_id \in DOMAIN d1.market_categories THEN d1
                ELSE [d1 EXCEPT !.market_categories =
                        Put(@, trade.market_id,
                            _detect_category_from_text(market_question, trade.market_id))]
          position_action == ExistingPositionAction(d2, trade)
          d3 == _update_wallet_profile(d2, trade, market_question)
          d4 == [d3 EXCEPT !.recent_trade_sizes =
                    LastN(Append(@, trade.amount_usd), max_recent_trades)]
          tracked == _update_cluster_tracking(_update_market_stats(d4, trade), t, trade)
          d5 == _update_market_volume(tracked, t, trade)
      IN  IF AwareEntries(tracked.recent_market_trades[trade.market_id]) # {}
            THEN { Result(tracked, "raised", << >>, position_action, << >>, << >>) }
          ELSE { Consolidate(d6, t, trade, market_question, position_action) :
                   d6 \in process_trade_for_entity(d5, t, trade) }

(***************************************************************************)
(* Markets, traders and trades used as inputs                              *)
(***************************************************************************)
MPol  == [market_id |-> <<"0xm1">>, question |-> <<"trump", "election">>]
MBtc  == [market_id |-> <<"0xm2">>, question |-> <<"bitcoin">>]
MHF   == [market_id |-> <<"0xm3">>, question |-> <<"bitcoin up or down">>]
MNfl  == [market_id |-> <<"0xm4">>, question |-> <<"nfl", "super bowl">>]
KNba  == [market_id |-> <<"kxnbatotal">>, question |-> NoText]
KBtc  == [market_id |-> <<"kxbtcd">>, question |-> NoText]

WA == <<"0xa">>
WB == <<"0xb">>
WC == <<"0xc">>
WD == <<"0xd">>
KalshiAnon == <<"KALSHI_ANON">>
NoAddress == << >>

\* An input of analyze_trade before its timestamp is known.  The price is $1
\* a share, as in create_trade of the tests, so that size = amount_usd.
In(market, trader, outcome, side, amount) ==
    [ market_id |-> market.market_id, question |-> market.question,
      trader_address |-> trader, outcome |-> outcome, side |-> side,
      amount_usd |-> amount ]

\* The Trade handed to analyze_trade; the id is that of a REST trade without
\* transaction hash, str(timestamp).
MakeTrade(in, timestamp) ==
    [ id             |-> [prefix |-> "", hash |-> "", size |-> 0, ts |-> timestamp],
      market_id      |-> in.market_id,
      trader_address |-> in.trader_address,
      outcome        |-> in.outcome,
      side           |-> in.side,
      size           |-> in.amount_usd,
      price          |-> 1,
      amount_usd     |-> in.amount_usd,
      timestamp      |-> timestamp,
      tzinfo         |-> << >>,
      transaction_hash |-> "" ]

\* The detectors reachable from those of ds by analyze_trade on each input in
\* turn, all at time t with timestamp t.  The inputs are replayed first half
\* before second half, which bounds the depth of the evaluation.
RECURSIVE Replay(_, _, _)
Replay(ds, t, ins) ==
    IF ins = << >> \/ ds = {} THEN ds
    ELSE IF Len(ins) = 1
      THEN UNION { { r.detector :
                       r \in analyze_trade(d, t, MakeTrade(ins[1], t), ins[1].question) } :
                   d \in ds }
    ELSE Replay(Replay(ds, t, SubSeq(ins, 1, Len(ins) \div 2)),
                t, SubSeq(ins, Len(ins) \div 2 + 1, Len(ins)))

Repeat(x, n) == [i \in 1..n |-> x]

Alternate(x, y, n) == [i \in 1..n |-> IF i % 2 = 1 THEN x ELSE y]

update_wallet_win_rate(d, address, won) ==
    IF address \notin DOMAIN d.wallet_profiles THEN d
    ELSE IF won
      THEN [d EXCEPT !.wallet_profiles[address].winning_trades = @ + 1]
      ELSE [d EXCEPT !.wallet_profiles[address].losing_trades = @ + 1]

\* cleanup_inactive_wallets called at time t; a day is DayMinutes.
cleanup_inactive_wallets(d, t, max_inactive_days, min_wallets_before_cleanup) ==
    LET cutoff   == t - max_inactive_days * DayMinutes
        inactive == { addr \in DOMAIN d.wallet_profiles :
                        d.wallet_profiles[addr].last_seen < cutoff }
    IN  IF Cardinality(DOMAIN d.wallet_profiles) < min_wallets_before_cleanup THEN d
        ELSE [d EXCEPT !.wallet_profiles =
                [addr \in DOMAIN @ \ inactive |-> @[addr]]]

\* update_wallet_win_rate on each <<address, won>> in turn.
RECURSIVE Resolve(_, _)
Resolve(d, resolved) ==
    IF resolved = << >> THEN d
    ELSE Resolve(update_wallet_win_rate(d, Head(resolved)[1], Head(resolved)[2]),
                 Tail(resolved))

(***************************************************************************)
(* Ingestion: PolymarketClient.get_recent_trades, PolymarketWebSocket,     *)
(* HybridTradeMonitor and TradeMonitor                                     *)
(***************************************************************************)
\* A trade item of the venue, as the data API and the stream deliver it.  The
\* transaction hash is <<first 16 characters, rest>>, or << >> when missing.
\* The timestamp is a number of seconds, tz = << >>, or an ISO string; tz is
\* then the offset the string ends with, <<"Z">>, or << >> when it has none.
\* datetime.fromtimestamp and fromisoformat make an offset-naive datetime of
\* the first and the last, and an offset-aware one of a string with offset.
Item(transactionHash, size, timestamp) ==
    [ transactionHash |-> transactionHash, size |-> size, price |-> 1,
      timestamp |-> timestamp, tz |-> << >>,
      proxyWallet |-> WA, conditionId |-> MPol.market_id,
      outcome |-> "Yes", side |-> "BUY", title |-> MPol.question ]

\* tx_hash[:16]
TxHash16(tx_hash) == IF tx_hash = << >> THEN "" ELSE tx_hash[1]

\* f"{tx_hash[:16]}_{size}" if tx_hash else str(ts), as the parts it is made of.
rest_trade_id(item) ==
    IF item.transactionHash # << >>
      THEN [prefix |-> "", hash |-> TxHash16(item.transactionHash), size |-> item.size,
            ts |-> 0]
      ELSE [prefix |-> "", hash |-> "", size |-> 0, ts |-> item.timestamp]

\* f"ws_{tx_hash[:16]}_{size}" if tx_hash else f"ws_{ts}_{size}"
ws_trade_id(item) ==
    IF item.transactionHash # << >>
      THEN [prefix |-> "ws_", hash |-> TxHash16(item.transactionHash), size |-> item.size,
            ts |-> 0]
      ELSE [prefix |-> "ws_", hash |-> "", size |-> item.size, ts |-> item.timestamp]

\* The fields of the Trade dataclass.
TradeFields ==
    {"id", "market_id", "trader_address", "outcome", "side", "size", "price",
     "amount_usd", "timestamp", "transaction_hash"}

\* The keywords _process_single_trade passes to Trade.
WsTradeKeywords == TradeFields \cup {"platform"}

\* The parameters of PolymarketClient.get_recent_trades.
GetRecentTradesParams == {"market_id", "limit", "before_timestamp"}

ItemTrade(item, id) ==
    [ id             |-> id,
      market_id      |-> item.conditionId,
      trader_address |-> item.proxyWallet,
      outcome        |-> item.outcome,
      side           |-> LowerSide(item.side),
      size           |-> item.size,
      price          |-> item.price,
      amount_usd     |-> item.size * item.price,
      timestamp      |-> item.timestamp,
      tzinfo         |-> item.tz,
      transaction_hash |-> item.transactionHash ]

\* get_recent_trades: one Trade per item of the response, in order.
get_recent_trades(items) ==
    [i \in 1..Len(items) |-> ItemTrade(items[i], rest_trade_id(items[i]))]

\* analyze_trades from each of the states rs = [detector, alerts, raised];
\* raised says that an exception of analyze_trade has ended the loop.
RECURSIVE analyze_trades(_, _, _, _)
analyze_trades(rs, t, trades, market_questions) ==
    IF trades = << >> THEN rs
    ELSE analyze_trades(
           UNION { IF acc.raised THEN {acc}
                   ELSE { [detector |-> r.detector, alerts |-> acc.alerts \o r.alerts,
                           raised |-> r.stage = "raised"] :
                            r \in analyze_trade(acc.detector, t, Head(trades),
                                                Get(market_questions,
                                                    Head(trades).market_id, NoText)) } :
                   acc \in rs },
           t, Tail(trades), market_questions)

\* set(list(ids)[-keep:]): a set has no order, any keep of its elements stay.
KeepLast(ids, keep) == { kept \in SUBSET ids : Cardinality(kept) = keep }

\* main.py after startup with a Database and an alerter: recent_alerts, the
\* ids of the rows of the alerts table, and the alerts handed to
\* alerter.send_alert, in order.
NewApp == [recent_alerts |-> << >>, alerts_table |-> {}, sent |-> << >>]

MAX_RECENT_ALERTS == 100

\* on_alert_detected(alert); db.save_alert either returns or raises, as the
\* database decides.  The id of an alert is "consolidated_" + trade.id.
on_alert_detected(a, alert) ==
    LET a1 == [a EXCEPT !.recent_alerts =
                 SubSeq(<<alert>> \o @, 1, Min(Len(@) + 1, MAX_RECENT_ALERTS))]
    IN  { a1,
          [a1 EXCEPT !.alerts_table = @ \cup {alert.trade.id},
                     !.sent = Append(@, alert)] }

\* "for alert in alerts: try: await self.on_alert(alert) except Exception"
RECURSIVE OnAlerts(_, _)
OnAlerts(as, alerts) ==
    IF alerts = << >> THEN as
    ELSE OnAlerts(UNION { on_alert_detected(a, Head(alerts)) : a \in as }, Tail(alerts))

\* WebSocketConfig.max_reconnect_attempts
MaxReconnectAttempts == 1

\* HybridTradeMonitor after start(), with its PolymarketWebSocket: "shared"
\* says that seen_trades and the client's seen_trade_ids are one set object,
\* ws_running is the _running of the client, connected says that its socket
\* is open, and _ws_task is where the task running connect() stands:
\* "connecting" (awaiting websockets.connect), "listening" (subscribed, in
\* the message loop), "sleeping" (the reconnect delay) or "done" (connect()
\* has returned or the task was cancelled).
NewHybrid ==
    [ _running              |-> TRUE,
      ws_running            |-> TRUE,
      connected             |-> FALSE,
      _ws_task              |-> "connecting",
      _reconnect_attempts   |-> 0,
      seen_trades           |-> {},
      seen_trade_ids        |-> {},
      shared                |-> TRUE,
      _trades_received      |-> 0,
      ws_trades_processed   |-> 0,
      poll_trades_processed |-> 0,
      ws_alerts_generated   |-> 0,
      poll_alerts_generated |-> 0,
      _market_cache         |-> EmptyDict ]

\* websockets.connect succeeded: the client listens for messages.
_connect_and_listen(h) ==
    [h EXCEPT !.connected = TRUE, !._reconnect_attempts = 0, !._ws_task = "listening"]

\* Exhaustion stops the whole controller.
ConnectStopsController(h) ==
    [h EXCEPT !.connected = FALSE, !._reconnect_attempts = @ + 1,
              !.ws_running = FALSE, !._running = FALSE, !._ws_task = "done"]

\* The loop of connect() once _connect_and_listen has raised or returned.
connect(h) ==
    IF ~h.ws_running THEN [h EXCEPT !.connected = FALSE, !._ws_task = "done"]
    ELSE IF h._reconnect_attempts + 1 > MaxReconnectAttempts
      THEN [h EXCEPT !.connected = FALSE, !._reconnect_attempts = @ + 1,
                     !.ws_running = FALSE, !._ws_task = "done"]
    ELSE [h EXCEPT !.connected = FALSE, !._reconnect_attempts = @ + 1,
                   !._ws_task = "sleeping"]

\* "while self._running" once asyncio.sleep(reconnect_delay) is over.
reconnect(h) == [h EXCEPT !._ws_task = IF h.ws_running THEN "connecting" ELSE "done"]

\* PolymarketWebSocket.disconnect: the socket is closed if there is one; the
\* task running connect() is left where it is.
disconnect(h) == [h EXCEPT !.ws_running = FALSE, !.connected = FALSE]

\* HybridTradeMonitor.stop: disconnect, then both tasks are cancelled.
stop(h) == [disconnect(h) EXCEPT !._running = FALSE, !._ws_task = "done"]

\* seen_trades.add(id) for each id
AddSeenTrades(h, ids) ==
    [h EXCEPT !.seen_trades = @ \cup ids,
              !.seen_trade_ids = IF h.shared THEN @ \cup ids ELSE @]

\* seen_trade_ids.add(id)
AddSeenTradeIds(h, ids) ==
    [h EXCEPT !.seen_trade_ids = @ \cup ids,
              !.seen_trades = IF h.shared THEN @ \cup ids ELSE @]

\* 25,000 trade ids, the unit of the sizes at which the seen sets are cut.
SeenUnit == 1

\* HybridTradeMonitor._on_ws_trade: the states [hybrid, detector] it may leave.
_on_ws_trade(h, d, t, trade, market_question) ==
    LET h1 == [h EXCEPT !.ws_trades_processed = @ + 1,
                        !._market_cache = IF market_question # NoText
                                            THEN Put(@, trade.market_id, market_question)
                                            ELSE @]
        market_questions == IF market_question # NoText
                              THEN Put(EmptyDict, trade.market_id, market_question)
                              ELSE EmptyDict
    IN  { [hybrid   |-> IF r.raised THEN h1
                        ELSE [h1 EXCEPT !.ws_alerts_generated = @ + Len(r.alerts)],
           detector |-> r.detector,
           alerts   |-> IF r.raised THEN << >> ELSE r.alerts] :
            r \in analyze_trades({[detector |-> d, alerts |-> << >>, raised |-> FALSE]}, t, <<trade>>,
                                 market_questions) }

\* PolymarketWebSocket._process_single_trade with on_trade = _on_ws_trade.
\* Trade(..., platform="Polymarket") raises TypeError unless Trade has the
\* field; the handler catches it and returns after the seen set was updated.
_process_single_trade(h, d, t, item) ==
    LET trade_id == ws_trade_id(item)
        h1 == AddSeenTradeIds(h, {trade_id})
        cut == IF Cardinality(h1.seen_trade_ids) > 4 * SeenUnit
                 THEN { [h1 EXCEPT !.seen_trade_ids = kept, !.shared = FALSE] :
                          kept \in KeepLast(h1.seen_trade_ids, 2 * SeenUnit) }
                 ELSE {h1}
    IN  IF trade_id \in h.seen_trade_ids
          THEN {[hybrid |-> h, detector |-> d, alerts |-> << >>]}
        ELSE IF ~(WsTradeKeywords \subseteq TradeFields)
          THEN { [hybrid |-> h2, detector |-> d, alerts |-> << >>] : h2 \in cut }
        ELSE UNION { _on_ws_trade([h2 EXCEPT !._trades_received = @ + 1], d, t,
                                  ItemTrade(item, trade_id), item.title) : h2 \in cut }

\* What get_recent_trades of one venue client does in a polling round: it
\* returns items, or it raises (network error, HTTP error, timeout).
Fetched(items) == [failed |-> FALSE, items |-> items]

FetchFailed == [failed |-> TRUE, items |-> << >>]

FailureStopsPolling(st, t, response) == {[st EXCEPT !.hybrid._running = FALSE]}

\* The turn of one client in a round of HybridTradeMonitor._run_polling, from
\* the state st = [hybrid, detector, alerts].  An exception of the fetch or
\* of the analysis is logged by the "except Exception" of the client's turn,
\* the latter before the counters.
PollClient(st, t, response) ==
    LET h          == st.hybrid
        trades     == get_recent_trades(response.items)
        new_trades == SelectSeq(trades, LAMBDA trade : trade.id \notin h.seen_trades)
        h1 == AddSeenTrades(h, { new_trades[i].id : i \in 1..Len(new_trades) })
        market_questions ==
            [market_id \in { new_trades[i].market_id : i \in 1..Len(new_trades) }
                             \cap DOMAIN h._market_cache |-> h._market_cache[market_id]]
        analysed == analyze_trades({[detector |-> st.detector, alerts |-> << >>,
                                     raised |-> FALSE]}, t, new_trades, market_questions)
    IN  IF response.failed THEN {st}
        ELSE { [hybrid   |-> IF r.raised THEN h1
                             ELSE [h1 EXCEPT
                                     !.poll_trades_processed = @ + Len(new_trades),
                                     !.poll_alerts_generated = @ + Len(r.alerts)],
                detector |-> r.detector,
                alerts   |-> st.alerts \o (IF r.raised THEN << >> ELSE r.alerts)] :
                 r \in analysed }

\* "for client in self.clients"
RECURSIVE PollClients(_, _, _)
PollClients(states, t, responses) ==
    IF responses = << >> THEN states
    ELSE PollClients(UNION { PollClient(st, t, Head(responses)) : st \in states },
                     t, Tail(responses))

\* One round of HybridTradeMonitor._run_polling, with one response per
\* configured client: the clients' turns, then the trim of seen_trades.
PollingRound(h, d, t, responses) ==
    LET cleanup(h2) == IF Cardinality(h2.seen_trades) > 4 * SeenUnit
                         THEN { [h2 EXCEPT !.seen_trades = kept, !.shared = FALSE] :
                                  kept \in KeepLast(h2.seen_trades, 2 * SeenUnit) }
                         ELSE {h2}
    IN  UNION { { [st EXCEPT !.hybrid = h3] : h3 \in cleanup(st.hybrid) } :
                st \in PollClients({[hybrid |-> h, detector |-> d, alerts |-> << >>]},
                                   t, responses) }

\* A round in which the one client that has trades is a PolymarketClient
\* whose response holds the items.
_run_polling(h, d, t, items) == PollingRound(h, d, t, <<Fetched(items)>>)

\* TradeMonitor._fetch_market_info on a cache miss, for what it writes into
\* the detector: question and category of every listed market, in the order
\* of the listing.
_fetch_market_info(d, markets) ==
    LET write[i \in 0..Len(markets)] ==
          IF i = 0 THEN d
          ELSE [write[i - 1] EXCEPT
                  !.market_questions  = Put(@, markets[i].id, markets[i].question),
                  !.market_categories = Put(@, markets[i].id, markets[i].category)]
    IN  write[Len(markets)]

\* TradeMonitor; last_check_time is << >> for None.
NewMonitor ==
    [ seen_trades            |-> {},
      total_trades_processed |-> 0,
      total_alerts_generated |-> 0,
      last_check_time        |-> << >> ]

\* TradeMonitor._check_for_trades with one PolymarketClient whose response
\* would hold the items.  get_recent_trades(limit=500, after_timestamp=...)
\* raises TypeError unless the client has the parameter; the handler logs it
\* and goes on with no trades.  The client has no get_whale_trades and no
\* market question is found.  cleaned says that the round went past the
\* return taken without new trades and called cleanup_inactive_wallets().
_check_for_trades(m, d, t, items) ==
    LET trades     == get_recent_trades(items)
        new_trades == SelectSeq(trades, LAMBDA trade : trade.id \notin m.seen_trades)
        seen       == m.seen_trades \cup { new_trades[i].id : i \in 1..Len(new_trades) }
        cut        == IF Cardinality(seen) > 2 * SeenUnit
                        THEN KeepLast(seen, SeenUnit) ELSE {seen}
        swept      == cleanup_inactive_wallets(d, t, 30, 10000)
        analysed   == analyze_trades({[detector |-> swept, alerts |-> << >>, raised |-> FALSE]}, t, new_trades,
                                     EmptyDict)
    IN  IF "after_timestamp" \notin GetRecentTradesParams \/ new_trades = << >>
          THEN {[monitor |-> m, detector |-> d, alerts |-> << >>, cleaned |-> FALSE]}
        ELSE UNION { { [monitor  |-> IF r.raised THEN [m EXCEPT !.seen_trades = kept]
                                     ELSE [m EXCEPT
                                             !.seen_trades = kept,
                                             !.total_trades_processed = @ + Len(new_trades),
                                             !.total_alerts_generated = @ + Len(r.alerts)],
                        detector |-> r.detector,
                        alerts   |-> IF r.raised THEN << >> ELSE r.alerts,
                        cleaned  |-> TRUE] : kept \in cut } :
                     r \in analysed }

(***************************************************************************)
(* Scenarios: a constructor configuration, a history already replayed      *)
(* through analyze_trade at time 0, the time at which the behaviour        *)
(* starts, the inputs offered afterwards, the delays of a trade's          *)
(* timestamp behind the clock, and the clock steps; "resolved" are the     *)
(* market resolutions <<address, won>> reported after the history.         *)
(***************************************************************************)
Scn(config, seed, start, inputs, lags, ticks) ==
    [ config |-> config, seed |-> seed, start |-> start, inputs |-> inputs,
      lags |-> lags, ticks |-> ticks, resolved |-> << >> ]

Scenarios ==
    [ default |->
        Scn(DefaultConfig, << >>, 0,
            { In(MPol, WA, "Yes", "buy", 3000), In(MPol, WA, "Yes", "buy", 50000),
              In(MPol, KalshiAnon, "Yes", "buy", 3000),
              In(MPol, KalshiAnon, "Yes", "buy", 12000),
              In(MPol, KalshiAnon, "Yes", "buy", 50000),
              In(MPol, NoAddress, "Yes", "buy", 12000),
              In(MNfl, WA, "Yes", "buy", 50000), In(MHF, WA, "Yes", "buy", 50000),
              In(KNba, KalshiAnon, "Yes", "buy", 50000) },
            {0}, {}),
      sports_on |->
        Scn([DefaultConfig EXCEPT !.exclude_sports = FALSE], << >>, 0,
            { In(MNfl, WA, "Yes", "buy", 12000), In(MNfl, WA, "Yes", "buy", 500),
              In(KNba, KalshiAnon, "Yes", "buy", 12000),
              In(MHF, WA, "Yes", "buy", 12000) },
            {0}, {}),
      position |->
        Scn(DefaultConfig, << >>, 0,
            { In(MPol, WA, "Yes", "buy", 3000), In(MPol, WA, "Yes", "buy", 500),
              In(MPol, WA, "Yes", "sell", 500), In(MPol, WA, "Yes", "SELL", 12000),
              In(MPol, WA, "No", "buy", 3000), In(MBtc, WA, "Yes", "buy", 3000) },
            {0}, {}),
      cluster |->
        Scn(DefaultConfig, Repeat(In(MPol, WA, "Yes", "buy", 100), 5), 61,
            { In(MPol, WA, "Yes", "buy", 3000), In(MPol, WB, "Yes", "buy", 3000),
              In(MPol, WC, "Yes", "buy", 3000), In(MPol, WD, "Yes", "buy", 1000),
              In(MPol, KalshiAnon, "Yes", "buy", 3000),
              In(MPol, KalshiAnon, "Yes", "buy", 50000) },
            {0, 1}, {2, 5}),
      crypto |->
        Scn([DefaultConfig EXCEPT !.crypto_min_threshold_usd = 5000], << >>, 0,
            { In(MBtc, WA, "Yes", "buy", 3000), In(MBtc, WA, "Yes", "buy", 6000),
              In(MBtc, WA, "Yes", "buy", 12000), In(KBtc, KalshiAnon, "Yes", "buy", 3000),
              In(MBtc, WB, "Yes", "buy", 3000), In(MPol, WA, "Yes", "buy", 3000) },
            {0}, {}),
      heavy |->
        Scn(DefaultConfig, Repeat(In(MBtc, WA, "Yes", "buy", 500), 9), 0,
            { In(MBtc, WA, "Yes", "buy", 500), In(MBtc, WA, "Yes", "buy", 1000),
              In(MBtc, WA, "Yes", "buy", 3000), In(MPol, WA, "Yes", "buy", 500),
              In(MBtc, KalshiAnon, "Yes", "buy", 3000) },
            {0}, {60}),
      single |->
        Scn([DefaultConfig EXCEPT !.min_triggers_required = 1], << >>, 0,
            { In(MPol, KalshiAnon, "Yes", "buy", 50000),
              In(MPol, KalshiAnon, "Yes", "buy", 3000),
              In(MPol, WA, "Yes", "buy", 3000), In(MPol, WA, "Yes", "buy", 1000),
              In(MPol, <<"UNKNOWN", "_7">>, "Yes", "buy", 50000),
              In(MPol, <<"ANONYMOUS", "-x">>, "Yes", "buy", 3000) },
            {0}, {}),
      triple |->
        Scn([DefaultConfig EXCEPT !.min_triggers_required = 3], << >>, 0,
            { In(MPol, WA, "Yes", "buy", 3000), In(MPol, WA, "Yes", "buy", 12000),
              In(MPol, KalshiAnon, "Yes", "buy", 3000) },
            {0}, {}),
      stats |->
        Scn([DefaultConfig EXCEPT !.min_trades_for_stats = 10],
            Repeat(In(MPol, WB, "Yes", "buy", 100), 10), 0,
            { In(MPol, WA, "Yes", "buy", 3000), In(MPol, WA, "Yes", "buy", 100),
              In(MPol, KalshiAnon, "Yes", "buy", 3000),
              In(MPol, KalshiAnon, "Yes", "buy", 50000) },
            {0}, {}),
      entity |->
        Scn(DefaultConfig,
            Alternate(In(MPol, WA, "Yes", "buy", 100),
                      In(MPol, KalshiAnon, "Yes", "buy", 100), 6), 0,
            { In(MPol, WA, "Yes", "buy", 1000), In(MPol, WA, "Yes", "buy", 3000),
              In(MPol, KalshiAnon, "Yes", "buy", 3000),
              In(MPol, WB, "Yes", "buy", 3000) },
            {0}, {1}),
      entity_crypto |->
        Scn([DefaultConfig EXCEPT !.crypto_min_threshold_usd = 5000],
            Alternate(In(MBtc, WA, "Yes", "buy", 100),
                      In(MBtc, WB, "Yes", "buy", 100), 10), 61,
            { In(MBtc, KalshiAnon, "Yes", "buy", 50000),
              In(MBtc, WA, "Yes", "buy", 1000), In(MBtc, WB, "Yes", "buy", 6000) },
            {0}, {}),
      smart |->
        [ Scn(DefaultConfig,
              << In(MPol, WA, "Yes", "buy", 50000), In(MPol, KalshiAnon, "Yes", "buy", 50000) >>,
              0,
              { In(MPol, WA, "Yes", "buy", 3000), In(MBtc, WA, "Yes", "buy", 500),
                In(MPol, KalshiAnon, "Yes", "buy", 3000),
                In(MBtc, KalshiAnon, "Yes", "buy", 500) },
              {0}, {})
          EXCEPT !.resolved = Repeat(<<WA, TRUE>>, 7) \o Repeat(<<WA, FALSE>>, 3)
                              \o Repeat(<<KalshiAnon, TRUE>>, 10) ],
      whale |->
        Scn([DefaultConfig EXCEPT !.crypto_min_threshold_usd = 50000], << >>, 0,
            { In(MPol, WA, "Yes", "buy", 25000), In(MPol, WB, "Yes", "buy", 10000),
              In(MPol, WB, "Yes", "buy", 9900), In(MPol, KalshiAnon, "Yes", "buy", 25000),
              In(MBtc, WA, "Yes", "buy", 25000), In(MBtc, WC, "Yes", "buy", 100) },
            {0, 1}, {1, 90}),
      anomaly |->
        Scn(DefaultConfig,
            Repeat(In(MPol, WB, "Yes", "buy", 100), 95)
              \o Repeat(In(MPol, WB, "Yes", "buy", 100), 5),
            0,
            { In(MPol, WA, "Yes", "buy", 5000), In(MPol, WB, "Yes", "buy", 5000),
              In(MPol, WC, "Yes", "buy", 5000), In(MBtc, WB, "Yes", "buy", 5000),
              In(MPol, WA, "Yes", "buy", 400) },
            {0}, {30, 2000}),
      refresh |->
        Scn(DefaultConfig, << >>, 0,
            { In([MPol EXCEPT !.question = NoText], WA, "Yes", "buy", 3000),
              In(MPol, WA, "Yes", "buy", 3000),
              In([MBtc EXCEPT !.question = NoText], WB, "Yes", "buy", 500),
              In(MBtc, WB, "Yes", "buy", 3000) },
            {0}, {}) ]

\* The markets a venue lists at a bulk refresh (get_active_markets), per
\* scenario: id, question and the category the venue gives.
ActiveMarkets ==
    [ refresh |-> << [id |-> MPol.market_id, question |-> MPol.question, category |-> "Politics"],
                     [id |-> MBtc.market_id, question |-> MBtc.question, category |-> "Crypto"] >> ]

\* Number of operations of one behaviour.
MaxSteps == 3

VARIABLES
    scn,        \* the scenario the behaviour belongs to
    detector,   \* the WhaleDetector
    now,        \* datetime.now(), in minutes
    call,       \* <<>>, or <<c>> with c the last call of analyze_trade
    steps,      \* operations performed so far
    engine,     \* an EntityEngine driven through its own interface
    hybrid,     \* the HybridTradeMonitor and its PolymarketWebSocket
    monitor,    \* the TradeMonitor
    observed,   \* history: the deliveries [source, item, id] made so far, and
                \* the wallets the detector has seen established or removed
    app         \* main.py: recent_alerts, the alerts table and the alerter

vars == <<scn, detector, now, call, steps, engine, hybrid, monitor, observed, app>>

\* History of the detector: <<w, "established">> for a wallet w that has had
\* five trades processed.
Established(d) ==
    { <<w, "established">> : w \in { a \in DOMAIN d.wallet_profiles :
                                        d.wallet_profiles[a].total_trades >= 5 } }

Init ==
    /\ scn \in DOMAIN Scenarios
    /\ detector \in { Resolve(d, Scenarios[scn].resolved) :
                        d \in Replay({NewDetector(Scenarios[scn].config)}, 0,
                                     Scenarios[scn].seed) }
    /\ now = Scenarios[scn].start
    /\ call = << >>
    /\ steps = 0
    /\ engine = NewEngine(Scenarios[scn].config.cluster_time_window, 0)
    /\ hybrid = NewHybrid
    /\ monitor = NewMonitor
    /\ app = NewApp
    /\ observed = Established(detector)

\* One call of analyze_trade on an input of the scenario.
AnalyzeTrade ==
    /\ steps < MaxSteps
    /\ \E in \in Scenarios[scn].inputs, lag \in Scenarios[scn].lags :
         /\ lag <= now
         /\ \E r \in analyze_trade(detector, now, MakeTrade(in, now - lag), in.question) :
              /\ detector' = r.detector
              /\ call' = << [ trade |-> MakeTrade(in, now - lag),
                              market_question |-> in.question,
                              stage |-> r.stage,
                              alerts |-> r.alerts,
                              position_action |-> r.position_action,
                              triggered_conditions |-> r.triggered_conditions,
                              filtered_conditions |-> r.filtered_conditions ] >>
              /\ observed' = observed \cup Established(r.detector)
    /\ steps' = steps + 1
    /\ UNCHANGED <<scn, now, engine, hybrid, monitor, app>>

\* Time passes.
Tick ==
    /\ steps < MaxSteps
    /\ \E dt \in Scenarios[scn].ticks : now' = now + dt
    /\ call' = << >>
    /\ steps' = steps + 1
    /\ UNCHANGED <<scn, detector, engine, hybrid, monitor, observed, app>>

\* A market resolves for a wallet that had resolutions before.
UpdateWalletWinRate ==
    /\ steps < MaxSteps
    /\ \E r \in Range(Scenarios[scn].resolved), won \in BOOLEAN :
         detector' = update_wallet_win_rate(detector, r[1], won)
    /\ call' = << >>
    /\ steps' = steps + 1
    /\ UNCHANGED <<scn, now, engine, hybrid, monitor, observed, app>>

\* A bulk refresh of the market metadata.
FetchMarketInfo ==
    /\ steps < MaxSteps
    /\ scn \in DOMAIN ActiveMarkets
    /\ detector' = _fetch_market_info(detector, ActiveMarkets[scn])
    /\ call' = << >>
    /\ steps' = steps + 1
    /\ UNCHANGED <<scn, now, engine, hybrid, monitor, observed, app>>

\* cleanup_inactive_wallets, with its default arguments (30 days, 10,000
\* wallets) or smaller ones; the history keeps <<w, "removed">> for a wallet
\* whose profile it deleted.
CleanupInactiveWallets ==
    /\ steps < MaxSteps
    /\ \E max_inactive_days \in {1, 30}, min_wallets_before_cleanup \in {1, 10000} :
         detector' = cleanup_inactive_wallets(detector, now, max_inactive_days,
                                              min_wallets_before_cleanup)
    /\ observed' = observed \cup
                      { <<w, "removed">> : w \in DOMAIN detector.wallet_profiles
                                                  \ DOMAIN detector'.wallet_profiles }
    /\ call' = << >>
    /\ steps' = steps + 1
    /\ UNCHANGED <<scn, now, engine, hybrid, monitor, app>>

Next == AnalyzeTrade \/ Tick \/ UpdateWalletWinRate \/ CleanupInactiveWallets \/ FetchMarketInfo

Spec == Init /\ [][Next]_vars

(***************************************************************************)
(* Properties of analyze_trade                                             *)
(***************************************************************************)
Called == call # << >>

TypesOf(conditions) == { conditions[i].type : i \in 1..Len(conditions) }

\* The category cached for the market of the trade.
CachedCategory(trade) == Get(detector.market_categories, trade.market_id, "Other")

MultiSignalExempt == {"WHALE_TRADE", "CLUSTER_ACTIVITY", "VIP_WALLET", "ENTITY_ACTIVITY"}

CryptoExempt == {"CLUSTER_ACTIVITY", "WHALE_TRADE", "SMART_MONEY", "VIP_WALLET"}

\* Every alert holds an exempt type or at least min_triggers_required types.
AlertsPassMultiSignal ==
    Called =>
      \A i \in 1..Len(call[1].alerts) :
        \/ Range(call[1].alerts[i].alert_types) \cap MultiSignalExempt # {}
        \/ Len(call[1].alerts[i].alert_types) >= detector.config.min_triggers_required

\* With min_triggers_required = 2, one trigger that is not exempt: no alert.
OneNonExemptTriggerNoAlert ==
    ( /\ Called
      /\ detector.config.min_triggers_required = 2
      /\ Len(call[1].triggered_conditions) = 1
      /\ call[1].triggered_conditions[1].type \notin MultiSignalExempt )
    => call[1].alerts = << >>

\* The category gate applies to the last call and no type passes it.
CategoryGateApplies ==
    /\ CachedCategory(call[1].trade) = "Crypto"
    /\ call[1].trade.amount_usd < detector.config.crypto_min_threshold_usd
    /\ TypesOf(call[1].triggered_conditions) \cap CryptoExempt = {}

OneExemptTrigger ==
    /\ Called
    /\ detector.config.min_triggers_required = 2
    /\ Len(call[1].triggered_conditions) = 1
    /\ call[1].triggered_conditions[1].type \in MultiSignalExempt

NetShares(profiles, trade) ==
    LET key == <<trade.market_id, trade.outcome>>
    IN  IF /\ trade.trader_address \in DOMAIN profiles
           /\ key \in DOMAIN profiles[trade.trader_address].positions
          THEN profiles[trade.trader_address].positions[key].buy_shares
               - profiles[trade.trader_address].positions[key].sell_shares
          ELSE 0

HasPosition(profiles, trade) ==
    /\ trade.trader_address \in DOMAIN profiles
    /\ <<trade.market_id, trade.outcome>>
         \in DOMAIN profiles[trade.trader_address].positions

\* The step is a call of analyze_trade that went past the market filters.
AnalyzedStep ==
    /\ steps' = steps + 1
    /\ call' # << >>
    /\ call'[1].stage \notin {"sports", "high_frequency"}

C5_SeverityIsMaxScore ==
    Called =>
      \A i \in 1..Len(call[1].alerts) :
        LET alert  == call[1].alerts[i]
            conds  == call[1].filtered_conditions
            scores == { conds[j].score : j \in 1..Len(conds) }
        IN  /\ alert.alert_types = [j \in 1..Len(conds) |-> conds[j].type]
            /\ alert.severity_score \in scores
            /\ \A x \in scores : x <= alert.severity_score
            /\ alert.severity_score \in 1..10
            /\ alert.severity =
                 (IF alert.severity_score <= 3 THEN "LOW"
                  ELSE IF alert.severity_score <= 6 THEN "MEDIUM" ELSE "HIGH")

\* An alert consolidated from triggers of different scores, the first of
\* which is not the highest.
C5_Witness ==
    /\ Called
    /\ call[1].alerts # << >>
    /\ call[1].filtered_conditions[1].score < call[1].alerts[1].severity_score

\* C6: no alert for a trade on a market flagged sports while exclude_sports
\* is true, nor for a trade on a high-frequency market under any
\* configuration, whatever the amount and the prior state; with exclude_sports
\* false a whale-sized trade on a sports market produces an alert.
C6_SportsAndHighFrequency ==
    Called =>
      LET trade  == call[1].trade
          sports == is_sports_market(call[1].market_question, trade.market_id)
          hf     == is_high_frequency_market(call[1].market_question, trade.market_id)
      IN  /\ (detector.config.exclude_sports /\ sports) => call[1].alerts = << >>
          /\ hf => call[1].alerts = << >>
          /\ ( /\ ~detector.config.exclude_sports
               /\ sports /\ ~hf
               /\ trade.amount_usd >= detector.config.whale_threshold_usd )
             => /\ call[1].alerts # << >>
                /\ "WHALE_TRADE" \in Range(call[1].alerts[1].alert_types)

\* A whale-sized trade on a sports market, not high-frequency, got no alert
\* under exclude_sports.
C6_Witness ==
    /\ Called
    /\ detector.config.exclude_sports
    /\ is_sports_market(call[1].market_question, call[1].trade.market_id)
    /\ ~is_high_frequency_market(call[1].market_question, call[1].trade.market_id)
    /\ call[1].trade.amount_usd >= detector.config.whale_threshold_usd
    /\ call[1].alerts = << >>

\* The trader address is an anonymous sentinel: empty, or prefixed
\* KALSHI_ANON, UNKNOWN or ANONYMOUS.
AnonymousSentinel(trader_address) ==
    \/ Len(trader_address) = 0
    \/ Head(trader_address) \in {"KALSHI_ANON", "UNKNOWN", "ANONYMOUS"}

IdentityTypes ==
    {"NEW_WALLET", "SMART_MONEY", "VIP_WALLET", "REPEAT_ACTOR", "HEAVY_ACTOR",
     "CLUSTER_ACTIVITY", "ENTITY_ACTIVITY"}

\* C7: for a trade whose trader address is an anonymous sentinel, in any
\* prior state, every identity-requiring detector is skipped: neither the
\* triggers nor an alert of that trade hold NEW_WALLET, SMART_MONEY,
\* VIP_WALLET, REPEAT_ACTOR, HEAVY_ACTOR, CLUSTER_ACTIVITY or ENTITY_ACTIVITY.
C7_AnonymousGating ==
    (Called /\ AnonymousSentinel(call[1].trade.trader_address)) =>
      /\ TypesOf(call[1].triggered_conditions) \cap IdentityTypes = {}
      /\ \A i \in 1..Len(call[1].alerts) :
            Range(call[1].alerts[i].alert_types) \cap IdentityTypes = {}

\* An anonymous trade got an alert while its profile is that of a new wallet
\* with three trades in the last hour, a volume of VIP size, and an entity.
C7_Witness ==
    /\ Called
    /\ AnonymousSentinel(call[1].trade.trader_address)
    /\ call[1].alerts # << >>
    /\ LET profile == detector.wallet_profiles[call[1].trade.trader_address]
       IN  /\ profile.total_trades < 5
           /\ profile.total_volume_usd >= detector.config.vip_min_volume
           /\ Len(profile.recent_trade_times) >= 3

\* C8: on a market whose category is Crypto an alert is emitted only if a
\* surviving trigger is crypto-exempt (CLUSTER_ACTIVITY, WHALE_TRADE,
\* SMART_MONEY, VIP_WALLET) or amount_usd >= crypto_min_threshold_usd; a $500
\* trade on a Crypto market by a wallet that is a heavy actor and a repeat
\* actor, with no other trigger, yields no alert.
C8_CryptoGate ==
    (Called /\ CachedCategory(call[1].trade) = "Crypto") =>
      /\ call[1].alerts # << >> =>
           /\ call[1].alerts[1].category = "Crypto"
           /\ \/ Range(call[1].alerts[1].alert_types) \cap CryptoExempt # {}
              \/ call[1].trade.amount_usd >= detector.config.crypto_min_threshold_usd
      /\ ( /\ call[1].trade.amount_usd = 500
           /\ TypesOf(call[1].triggered_conditions) \subseteq {"HEAVY_ACTOR", "REPEAT_ACTOR"} )
         => call[1].alerts = << >>

\* Two triggers that pass the threshold filter and the multi-signal gate on
\* a Crypto market, none crypto-exempt, amount below the threshold: no alert.
C8_Witness ==
    /\ Called
    /\ CachedCategory(call[1].trade) = "Crypto"
    /\ Len(call[1].filtered_conditions) >= detector.config.min_triggers_required
    /\ TypesOf(call[1].filtered_conditions) \cap CryptoExempt = {}
    /\ call[1].trade.amount_usd < detector.config.crypto_min_threshold_usd
    /\ call[1].alerts = << >>

\* The $500 case of C8 as the code meets it: the wallet is a repeat actor and
\* a heavy actor, only HEAVY_ACTOR triggers (REPEAT_ACTOR needs $1000), and
\* the trade ends without an alert.
C8_HeavyRepeatCase ==
    /\ Called
    /\ CachedCategory(call[1].trade) = "Crypto"
    /\ call[1].trade.amount_usd = 500
    /\ LET profile == detector.wallet_profiles[call[1].trade.trader_address]
       IN  is_repeat_actor(profile, now) /\ is_heavy_actor(profile, now)
    /\ TypesOf(call[1].triggered_conditions) = {"HEAVY_ACTOR"}
    /\ call[1].alerts = << >>

\* The distinct other wallets that traded the market of the trade within the
\* coordination window before it, with amounts between 0.5x and 2.0x of it.
MatchingOtherWallets(trade) ==
    LET recent == Get(detector.recent_market_trades, trade.market_id, << >>)
    IN  { recent[i][1] : i \in
            { j \in 1..Len(recent) :
                /\ recent[j][1] # trade.trader_address
                /\ recent[j][2] > trade.timestamp - detector.config.cluster_time_window
                /\ 2 * recent[j][3] >= trade.amount_usd
                /\ recent[j][3] <= 2 * trade.amount_usd } }

ClusterTriggered == "CLUSTER_ACTIVITY" \in TypesOf(call[1].triggered_conditions)

\* C10 as stated: CLUSTER_ACTIVITY is triggered only when at least 2
\* distinct other wallets traded the same market within the coordination
\* window with amounts between 0.5x and 2.0x of this trade.
C10_AsStated ==
    (Called /\ ClusterTriggered) =>
        Cardinality(MatchingOtherWallets(call[1].trade)) >= 2

\* C10, amended: CLUSTER_ACTIVITY is triggered for a trade exactly when at
\* least 1 distinct other wallet traded the same market within the
\* coordination window with an amount between 0.5x and 2.0x of this trade,
\* the amount is >= $2000 and the trader is not anonymous (so of three
\* wallets trading $3000 each the second and later trades trigger it), and
\* every trade that triggers it gets an alert that includes it, also when it
\* is the only trigger.
C10_ClusterActivity ==
    (Called /\ call[1].stage \notin {"sports", "high_frequency"}) =>
        /\ ClusterTriggered <=>
             /\ Cardinality(MatchingOtherWallets(call[1].trade)) >= 1
             /\ call[1].trade.amount_usd >= 2000
             /\ ~AnonymousSentinel(call[1].trade.trader_address)
        /\ ClusterTriggered =>
             /\ Len(call[1].alerts) = 1
             /\ "CLUSTER_ACTIVITY" \in Range(call[1].alerts[1].alert_types)

\* The second of the $3000 trades: one other wallet matches, CLUSTER_ACTIVITY
\* is the only trigger, and the alert is emitted.
C10_Witness ==
    /\ Called
    /\ call[1].trade.amount_usd = 3000
    /\ Cardinality(MatchingOtherWallets(call[1].trade)) = 1
    /\ TypesOf(call[1].triggered_conditions) = {"CLUSTER_ACTIVITY"}
    /\ Len(call[1].alerts) = 1
    /\ Range(call[1].alerts[1].alert_types) = {"CLUSTER_ACTIVITY"}

\* The last call analysed a trade in a detector that was empty before it.
FirstTradeOfDetector ==
    /\ Called
    /\ call[1].stage \notin {"sports", "high_frequency"}
    /\ Len(detector.recent_trade_sizes) = 1
    /\ DOMAIN detector.wallet_profiles = {call[1].trade.trader_address}

\* S1: $25,000, wallet never seen and identified, market neither sports nor
\* crypto, detector empty.
WhaleAloneCase ==
    /\ FirstTradeOfDetector
    /\ call[1].trade.amount_usd = 25000
    /\ ~AnonymousSentinel(call[1].trade.trader_address)
    /\ ~is_sports_market(call[1].market_question, call[1].trade.market_id)
    /\ CachedCategory(call[1].trade) # "Crypto"

WhaleSized(trade) == trade.amount_usd >= detector.config.whale_threshold_usd

AnomalyAloneCase ==
    /\ Called
    /\ call[1].stage \notin {"sports", "high_frequency"}
    /\ call[1].trade.amount_usd = 5000
    /\ Len(detector.recent_trade_sizes) = 101
    /\ \A i \in 1..100 : detector.recent_trade_sizes[i] = 100
    /\ ~AnonymousSentinel(call[1].trade.trader_address)
    /\ ~is_new_wallet(detector.wallet_profiles[call[1].trade.trader_address])
    /\ detector.config = DefaultConfig

\* C12 as stated: after 100 baseline trades of $100, a single $5,000 trade by
\* a known (not new) wallet triggers UNUSUAL_SIZE and, there being no other
\* trigger under the default multi-signal gate, no alert is emitted for it.
C12_AsStated ==
    AnomalyAloneCase =>
        /\ "UNUSUAL_SIZE" \in TypesOf(call[1].triggered_conditions)
        /\ call[1].alerts = << >>

\* C12, amended: after 100 baseline trades of $100, a single $5,000 trade by
\* a known (not new) wallet triggers UNUSUAL_SIZE and also HIGH_IMPACT (the
\* trade is at least a third of the hourly volume of its market), so that
\* under the default multi-signal gate one alert holding both types is
\* emitted for it.
C12_AnomalyAlone ==
    AnomalyAloneCase =>
        /\ {"UNUSUAL_SIZE", "HIGH_IMPACT"} \subseteq TypesOf(call[1].triggered_conditions)
        /\ Len(call[1].alerts) = 1
        /\ {"UNUSUAL_SIZE", "HIGH_IMPACT"} \subseteq Range(call[1].alerts[1].alert_types)

\* The $5,000 trade more than a day after the baseline: UNUSUAL_SIZE and
\* HIGH_IMPACT are its only triggers.
C12_Witness ==
    /\ AnomalyAloneCase
    /\ AlertTypes(call[1].triggered_conditions) = <<"UNUSUAL_SIZE", "HIGH_IMPACT">>
    /\ Len(call[1].alerts) = 1

\* C19: with trades of one wallet arriving in any order of their timestamps,
\* last_seen of its profile is after each observation the maximum of the
\* timestamps observed so far for the wallet (recent_trade_times holds them,
\* no wallet having more than a hundred trades after its latest one), and so
\* never moves backwards.
C19_LastSeenIsMax ==
    \A w \in DOMAIN detector.wallet_profiles :
        \A i \in DOMAIN detector.wallet_profiles[w].recent_trade_times :
            detector.wallet_profiles[w].recent_trade_times[i]
              <= detector.wallet_profiles[w].last_seen

\* The alert types the battery can append, in its order.
BatteryOrder ==
    << "WHALE_TRADE", "UNUSUAL_SIZE", "NEW_WALLET", "SMART_MONEY", "VIP_WALLET",
       "REPEAT_ACTOR", "HEAVY_ACTOR", "CLUSTER_ACTIVITY", "HIGH_IMPACT", "ENTITY_ACTIVITY" >>

\* The types are a subsequence of BatteryOrder without repetition.
InBatteryOrder(types) ==
    \E pos \in [1..Len(types) -> 1..Len(BatteryOrder)] :
        /\ \A i \in 1..Len(types) : BatteryOrder[pos[i]] = types[i]
        /\ \A i, j \in 1..Len(types) : i < j => pos[i] < pos[j]

SmartMoneyCase ==
    /\ Called
    /\ call[1].stage \notin {"sports", "high_frequency"}
    /\ call[1].trade.amount_usd >= 500
    /\ ~_is_anonymous_trader(call[1].trade.trader_address)
    /\ is_smart_money(detector.wallet_profiles[call[1].trade.trader_address])

\* C23: a trade of at least $500 by an identified wallet that qualifies as
\* smart money produces an alert that reports SMART_MONEY, with severity HIGH
\* (checked in the weaker reading that SMART_MONEY is one of the alert's
\* types, not necessarily the first, which alert_type returns).
C23_SmartMoneyAlert ==
    SmartMoneyCase =>
      /\ Len(call[1].alerts) = 1
      /\ \E i \in 1..Len(call[1].alerts[1].alert_types) :
           call[1].alerts[1].alert_types[i] = "SMART_MONEY"
      /\ call[1].alerts[1].severity = "HIGH"

\* The call flagged its trade NEW_WALLET.
FlaggedNewWallet == Called /\ "NEW_WALLET" \in TypesOf(call[1].triggered_conditions)

C32_ScoresFollowRubric ==
    Called =>
      \A i \in 1..Len(call[1].triggered_conditions) :
         call[1].triggered_conditions[i].score
            = _calculate_severity_score(
                  call[1].trade,
                  detector.wallet_profiles[call[1].trade.trader_address],
                  call[1].triggered_conditions[i].type, now)

\* C33: a trade that is not skipped, is worth at least $1,000 and is the only
\* trade inside its market's hourly volume window has impact ratio exactly
\* 1.0 (its own amount is in the volume before the ratio is taken: the window
\* volume equals its amount), so HIGH_IMPACT is among its triggers, with the
\* score of a ratio of at least 0.50.
SoleTradeInWindow ==
    /\ Called
    /\ call[1].stage \notin {"sports", "high_frequency", "raised"}
    /\ call[1].trade.amount_usd >= 1000
    /\ call[1].trade.market_id \in DOMAIN detector.market_hourly_volume
    /\ Len(detector.market_hourly_volume[call[1].trade.market_id].trades) <= 1

C33_SoleTradeIsHighImpact ==
    SoleTradeInWindow =>
      /\ detector.market_hourly_volume[call[1].trade.market_id].volume
            \in {0, call[1].trade.amount_usd}
      /\ \E i \in 1..Len(call[1].triggered_conditions) :
            /\ call[1].triggered_conditions[i].type = "HIGH_IMPACT"
            /\ call[1].triggered_conditions[i].score = 8

\* A later trade on a market whose earlier trades have left the window, and
\* a first trade on a market, both flagged.
C33_Witness ==
    /\ SoleTradeInWindow
    /\ Len(detector.market_hourly_volume[call[1].trade.market_id].trades) = 1
    /\ detector.market_hourly_volume[call[1].trade.market_id].volume
          = call[1].trade.amount_usd
    /\ steps >= 2
    /\ "HIGH_IMPACT" \in TypesOf(call[1].triggered_conditions)

\* The detector runs with the default thresholds of the constructor; the
\* minimum amounts of ENTITY_ACTIVITY (1000) and CLUSTER_ACTIVITY (2000) are
\* literals of the battery.
DefaultThresholds ==
    /\ detector.config.min_alert_threshold_usd = 2000
    /\ detector.config.crypto_min_threshold_usd = 974
    /\ detector.config.whale_threshold_usd = 10000

\* C34: under the default thresholds no trade that passes the threshold filter
\* and the multi-signal gate is suppressed by the crypto gate: the gate lets
\* every such trade through, so whether a trade produces an alert is what it
\* would be without the gate.
C34_CryptoGateIdleByDefault ==
    (Called /\ DefaultThresholds) =>
      /\ call[1].stage # "crypto"
      /\ ( /\ call[1].filtered_conditions # << >>
           /\ PassesMultiSignal(detector.config, call[1].filtered_conditions) )
         => call[1].alerts # << >>

\* A trade on a Crypto market below crypto_min_threshold_usd that passed both
\* earlier gates and produced its alert.
C34_Witness ==
    /\ Called /\ DefaultThresholds
    /\ CachedCategory(call[1].trade) = "Crypto"
    /\ call[1].trade.amount_usd < detector.config.crypto_min_threshold_usd
    /\ call[1].filtered_conditions # << >>
    /\ call[1].alerts # << >>

\* The step is a call of analyze_trade that returned at the sports filter or
\* at the high-frequency filter.
SuppressedCall ==
    /\ call' # << >>
    /\ call'[1].stage \in {"sports", "high_frequency"}

\* C35: a trade suppressed by the sports filter or the high-frequency filter
\* leaves all detector state unchanged (profiles, statistics, cluster
\* tracking, hourly volume, category cache, entity engine); consequently,
\* with exclude_sports enabled, every profile has non_sports_volume_usd =
\* total_volume_usd and non_sports_trades = total_trades.
C35_SuppressedTradeLeavesNoTrace ==
    /\ [][SuppressedCall => detector' = detector]_vars
    /\ [](detector.config.exclude_sports =>
            \A w \in DOMAIN detector.wallet_profiles :
               /\ detector.wallet_profiles[w].non_sports_volume_usd
                     = detector.wallet_profiles[w].total_volume_usd
               /\ detector.wallet_profiles[w].non_sports_trades
                     = detector.wallet_profiles[w].total_trades)

\* A sports trade was skipped by a detector that already holds the profile
\* of its trader.
C35_Witness ==
    /\ Called
    /\ call[1].stage = "sports"
    /\ detector.config.exclude_sports
    /\ call[1].trade.trader_address \in DOMAIN detector.wallet_profiles
    /\ detector.wallet_profiles[call[1].trade.trader_address].total_trades >= 1

\* Every market that has a cached category keeps it over the step.
CategoriesKept ==
    \A m \in DOMAIN detector.market_categories :
       /\ m \in DOMAIN detector'.market_categories
       /\ detector'.market_categories[m] = detector.market_categories[m]

C36_TradesKeepCategory == [][call' # << >> => CategoriesKept]_vars

F1 == <<"0xf1">>
F2 == <<"0xf2">>

\* A call on_trade(wallet, market_id, timestamp, funder, cash) made at time at.
EngineIn(wallet, funder, at) == [wallet |-> wallet, funder |-> funder, at |-> at]

\* The engines a sequence of on_trade calls may leave.
RECURSIVE EngineReplay(_, _)
EngineReplay(engines, ins) ==
    IF ins = << >> THEN engines
    ELSE EngineReplay(
           UNION { on_trade(eng, Head(ins).at, Head(ins).wallet, MPol.market_id, Head(ins).at,
                            Head(ins).funder, 1000) : eng \in engines },
           Tail(ins))

\* Histories of an engine created at time 0: none; wallets a, b, c of one
\* funder; two pairs of wallets with a funder each; the two pairs joined by
\* wallet c moving to the funder of the first pair; wallets a and b of one
\* funder trading hours apart; wallets a and b trading twice with one funder
\* and c once, then c and d trading twice with a second funder.
EngineSeeds ==
    [ empty |-> << >>,
      abc   |-> << EngineIn(WA, F1, 0), EngineIn(WB, F1, 0), EngineIn(WC, F1, 1) >>,
      pairs |-> << EngineIn(WA, F1, 0), EngineIn(WB, F1, 0), EngineIn(WC, F2, 0),
                   EngineIn(WD, F2, 1) >>,
      chain |-> << EngineIn(WA, F1, 0), EngineIn(WB, F1, 0), EngineIn(WC, F2, 0),
                   EngineIn(WD, F2, 0), EngineIn(WC, F1, 1) >>,
      funded |-> << EngineIn(WA, F1, 0), EngineIn(WB, F1, 400) >>,
      split |-> << EngineIn(WA, F1, 0), EngineIn(WB, F1, 0), EngineIn(WA, F1, 0),
                   EngineIn(WB, F1, 0), EngineIn(WC, F1, 0), EngineIn(WC, F2, 10),
                   EngineIn(WD, F2, 10), EngineIn(WC, F2, 10), EngineIn(WD, F2, 11) >> ]

\* A few minutes, long enough for an edge of one signal to decay below the
\* entity threshold, or one half-life of an edge.
EngineTicks == {1, 400, 1440}

\* Minutes by which a trade reported late is behind the clock.
TradeLag == 2

InitEntity ==
    /\ scn \in DOMAIN EngineSeeds
    /\ engine \in EngineReplay({NewEngine(DefaultConfig.cluster_time_window, 0)},
                               EngineSeeds[scn])
    /\ now = IF EngineSeeds[scn] = << >> THEN 0
             ELSE EngineSeeds[scn][Len(EngineSeeds[scn])].at
    /\ detector = NewDetector(DefaultConfig)
    /\ call = << >>
    /\ steps = 0
    /\ hybrid = NewHybrid
    /\ monitor = NewMonitor
    /\ app = NewApp
    /\ observed = {}

\* The trade's timestamp is the clock, or TradeLag minutes behind it (and then
\* behind the edges written since) for a trade without funder.
EngineOnTrade ==
    /\ steps < MaxSteps
    /\ \E wallet \in {WA, WB, WC, WD}, funder \in {NoText, F1, F2}, lag \in {0, TradeLag} :
         /\ lag > 0 => funder = NoText
         /\ engine' \in on_trade(engine, now, wallet, MPol.market_id, now - lag, funder, 1000)
         /\ call' = << [op |-> "on_trade", wallet |-> wallet, funder |-> funder,
                        timestamp |-> now - lag] >>
    /\ steps' = steps + 1
    /\ UNCHANGED <<scn, detector, now, hybrid, monitor, observed, app>>

EngineRebuild ==
    /\ steps < MaxSteps
    /\ engine' \in rebuild_entities(engine, now)
    /\ call' = << [op |-> "rebuild_entities"] >>
    /\ steps' = steps + 1
    /\ UNCHANGED <<scn, detector, now, hybrid, monitor, observed, app>>

EngineTick ==
    /\ steps < MaxSteps
    /\ \E dt \in EngineTicks : now' = now + dt
    /\ call' = << >>
    /\ steps' = steps + 1
    /\ UNCHANGED <<scn, detector, engine, hybrid, monitor, observed, app>>

NextEntity == EngineOnTrade \/ EngineRebuild \/ EngineTick

SpecEntity == InitEntity /\ [][NextEntity]_vars

(***************************************************************************)
(* Properties of rebuild_entities                                          *)
(***************************************************************************)
\* The step ran rebuild_entities: directly, or inside on_trade once the
\* rebuild interval has passed.
Rebuilt ==
    /\ call' # << >>
    /\ \/ call'[1].op = "rebuild_entities"
       \/ /\ call'[1].op = "on_trade"
          /\ now - engine._last_rebuild >= engine.config.entity_rebuild_interval

\* The wallets an engine state maps to the entity id.
MembersOf(eng, entity_id) ==
    { w \in DOMAIN eng.wallet_to_entity : eng.wallet_to_entity[w] = entity_id }

\* The entity ids of the previous rebuild that have a wallet in the component.
PriorIds(component) ==
    { engine.wallet_to_entity[w] : w \in component \cap DOMAIN engine.wallet_to_entity }

InheritsFrom(component, entity_id) ==
    /\ \A w \in component :
          /\ w \in DOMAIN engine'.wallet_to_entity
          /\ engine'.wallet_to_entity[w] = entity_id
    /\ entity_id \in DOMAIN engine'.entities
    /\ engine'.entities[entity_id].entity_id = entity_id
    /\ engine'.entities[entity_id].created_at = engine.entities[entity_id].created_at

\* C9: in every rebuild, a component whose wallets are exactly the wallets
\* of an entity of the previous rebuild keeps that entity's id, and a
\* component that shares at least one wallet with exactly one entity of the
\* previous rebuild inherits that entity's id and created_at.
C9_StableEntityIds ==
    [][ Rebuilt =>
          \A component \in Components(ValidEdges(engine', now')) :
             /\ \A entity_id \in DOMAIN engine.entities :
                   MembersOf(engine, entity_id) = component
                     => InheritsFrom(component, entity_id)
             /\ \A entity_id \in PriorIds(component) :
                   PriorIds(component) = {entity_id}
                     => InheritsFrom(component, entity_id)
      ]_vars

\* The entity of wallets a, b and c, created at minute 1 with id 1, has grown
\* to a, b, c and d in a later rebuild and kept its id and created_at.
C9_Witness ==
    /\ scn = "abc"
    /\ call # << >>
    /\ now > 1
    /\ 1 \in DOMAIN engine.entities
    /\ engine.entities[1].wallets = {WA, WB, WC, WD}
    /\ engine.entities[1].created_at = 1
    /\ engine.entities[1].updated_at = now
    /\ MembersOf(engine, 1) = {WA, WB, WC, WD}

\* The edge holds one shared_funder sample and nothing else.
SingleFunderSample(edge) ==
    /\ DOMAIN edge.evidence = {"shared_funder"}
    /\ edge.evidence_counts["shared_funder"] = 1

\* The weight the first shared_funder sample of an edge is written with.
InitialFunderWeight(c) == Min(c.edge_funder_weight, c.cap_shared_funder)

\* w is half of the initial weight, within one unit of the last decimal.
HalfOfInitial(c, w) ==
    /\ 2 * w >= InitialFunderWeight(c) - 2
    /\ 2 * w <= InitialFunderWeight(c) + 2

\* An edge of a single shared_funder sample written one half-life ago.
HalfLifeEdges ==
    { key \in DOMAIN engine.edges :
        /\ SingleFunderSample(engine.edges[key])
        /\ now = engine.edges[key].last_updated + engine.config.edge_halflife }

\* C14: for an edge holding a single shared_funder sample written at t0, the
\* weight reported for that edge at time t0 + edge_halflife (by reading the
\* edge, or by the entity rebuild) equals half of its initial weight, within
\* tolerance.
C14_HalfWeightAfterHalfLife ==
    \A key \in HalfLifeEdges :
        /\ HalfOfInitial(engine.config, get_edge_details(engine, key[1], key[2])[1].weight)
        /\ HalfOfInitial(engine.config, decayed_weight(engine, now, key))

\* What holds of the code: the rebuild sees half of the initial weight, and
\* reading the edge reports the initial weight itself.
C14_DecayOnlyInRebuild ==
    \A key \in HalfLifeEdges :
        /\ get_edge_details(engine, key[1], key[2])[1].weight
             = InitialFunderWeight(engine.config)
        /\ HalfOfInitial(engine.config, decayed_weight(engine, now, key))

C14_Reached == HalfLifeEdges # {}

\* C25: after every rebuild_entities, distinct connected components have
\* distinct entity ids, and for every wallet that has an entry in
\* wallet_to_entity, get_entity_for_wallet returns an entity whose wallet
\* set contains the wallet; also when an entity of the previous rebuild
\* splits into two components of at least 2 wallets that both overlap it.
C25_DistinctIdsAndMembership ==
    [][ Rebuilt =>
          /\ \A c1, c2 \in Components(ValidEdges(engine', now')) :
                c1 # c2 => \A w1 \in c1, w2 \in c2 :
                   engine'.wallet_to_entity[w1] # engine'.wallet_to_entity[w2]
          /\ \A w \in DOMAIN engine'.wallet_to_entity :
                w \in get_entity_for_wallet(engine', w).wallets
      ]_vars

\* The number of samples of the signal recorded on the edge of key.
SampleCount(eng, key, signal) ==
    IF key \in DOMAIN eng.edges /\ signal \in DOMAIN eng.edges[key].evidence_counts
      THEN eng.edges[key].evidence_counts[signal] ELSE 0

\* C29: one on_trade call adds a time_coupled sample between the trading
\* wallet and every distinct other wallet that traded the same market within
\* coord_window: at most one sample per peer wallet per trade, even when the
\* peer has several trades on the market inside the window.
C29_OneTimeCoupledSamplePerPeer ==
    [][ (call' # << >> /\ call'[1].op = "on_trade") =>
          \A key \in DOMAIN engine'.edges :
             SampleCount(engine', key, "time_coupled")
                <= SampleCount(engine, key, "time_coupled") + 1
      ]_vars

\* The cap of a signal kind.
SignalCap(c, signal) ==
    CASE signal = "shared_funder"  -> c.cap_shared_funder
      [] signal = "time_coupled"   -> c.cap_time_coupled
      [] signal = "market_overlap" -> c.cap_market_overlap

E1 == Item(<<"0xh1", "a">>, 100, 0)
E2 == Item(<<"0xh2", "b">>, 100, 0)
E3 == Item(<<"0xh3", "c">>, 200, 0)
E4 == Item(<< >>, 100, 0)

\* Further items: one whose timestamp is an ISO string ending in Z, a trade
\* of $25,000, and one without "side", for which item.get("side", "") is "".
Odd ==
    [ iso    |-> [Item(<<"0xh5", "e">>, 100, 0) EXCEPT !.tz = <<"Z">>],
      whale  |-> Item(<<"0xh6", "f">>, 25000, 0),
      noside |-> [Item(<<"0xh7", "g">>, 100, 0) EXCEPT !.side = ""] ]

VenueItems == {E1, E2, E3, E4, Odd.iso, Odd.whale, Odd.noside}

\* Responses of the data API to get_recent_trades.
PolledBatches ==
    { <<E1>>, <<E4>>, <<E1, E1>>, <<E1, E2>>, <<E2, E3>>, <<E3, E4>>, <<E4, E1>>,
      <<Odd.iso, E1>>, <<Odd.whale>>, <<Odd.noside>> }

\* What the configured clients answer in one polling round: one client has
\* trades (the others return none), or one of two clients fails.
PolledResponses ==
    { <<Fetched(items)>> : items \in PolledBatches }
      \cup { <<FetchFailed>>, <<FetchFailed, Fetched(<<E1>>)>>,
             <<Fetched(<<E1, E2>>), FetchFailed>>, <<Fetched(<<E3>>), FetchFailed>> }

\* The items of the responses, in the order of the clients.
RECURSIVE FetchedItems(_)
FetchedItems(responses) ==
    IF responses = << >> THEN << >>
    ELSE Head(responses).items \o FetchedItems(Tail(responses))

\* The deliveries of a sequence of items by a source.
Delivered(source, items) ==
    { [source |-> source, item |-> items[i],
       id |-> IF source = "ws" THEN ws_trade_id(items[i]) ELSE rest_trade_id(items[i])] :
        i \in 1..Len(items) }

\* The states [hybrid, detector] after polling rounds at times t + 1, t + 2, ...
RECURSIVE PollReplay(_, _, _)
PollReplay(states, t, batches) ==
    IF batches = << >> THEN states
    ELSE PollReplay(
           UNION { _run_polling(st.hybrid, st.detector, t + 1, Head(batches)) :
                     st \in states },
           t + 1, Tail(batches))

\* Histories of a started HybridTradeMonitor: none, two polling rounds, and
\* none with the stream client at its second connection attempt.
IngestSeeds ==
    [ started  |-> << >>,
      polled   |-> << <<E1, E2>>, <<E3, E4>> >>,
      retrying |-> << >> ]

\* The controller before the polling rounds of the history.
StartedHybrid(s) ==
    IF s = "retrying" THEN reconnect(connect(NewHybrid)) ELSE NewHybrid

InitIngest ==
    /\ scn \in DOMAIN IngestSeeds
    /\ \E st \in PollReplay({[hybrid |-> StartedHybrid(scn),
                             detector |-> NewDetector(DefaultConfig),
                             alerts |-> << >>]},
                            0, IngestSeeds[scn]) :
         /\ hybrid = st.hybrid
         /\ detector = st.detector
    /\ observed = UNION { Delivered("rest", IngestSeeds[scn][i]) :
                            i \in 1..Len(IngestSeeds[scn]) }
    /\ now = Len(IngestSeeds[scn])
    /\ monitor = NewMonitor
    /\ app = NewApp
    /\ engine = NewEngine(DefaultConfig.cluster_time_window, 0)
    /\ call = << >>
    /\ steps = 0

\* One round of the polling loop of the HybridTradeMonitor, after its sleep.
\* cleaned in the record of the call says whether the round called
\* cleanup_inactive_wallets(): _run_polling has no such call.
RunPolling ==
    /\ steps < MaxSteps
    /\ hybrid._running
    /\ \E responses \in PolledResponses :
         /\ \E r \in PollingRound(hybrid, detector, now + 1, responses) :
              /\ hybrid' = r.hybrid
              /\ detector' = r.detector
              /\ app' \in OnAlerts({app}, r.alerts)
              /\ call' = << [op |-> "_run_polling", items |-> FetchedItems(responses),
                              alerts |-> r.alerts, cleaned |-> FALSE,
                              responses |-> responses] >>
         /\ observed' = observed \cup Delivered("rest", FetchedItems(responses))
    /\ now' = now + 1
    /\ steps' = steps + 1
    /\ UNCHANGED <<scn, engine, monitor>>

\* One trade message of the stream.
ProcessSingleTrade ==
    /\ steps < MaxSteps
    /\ hybrid.connected
    /\ \E item \in VenueItems :
         /\ \E r \in _process_single_trade(hybrid, detector, now, item) :
              /\ hybrid' = r.hybrid
              /\ detector' = r.detector
              /\ app' \in OnAlerts({app}, r.alerts)
         /\ observed' = observed \cup Delivered("ws", <<item>>)
         /\ call' = << [op |-> "_process_single_trade", items |-> <<item>>] >>
    /\ steps' = steps + 1
    /\ UNCHANGED <<scn, engine, monitor, now>>

\* One round of the loop of the TradeMonitor: _check_for_trades, then
\* last_check_time = datetime.now().
CheckForTrades ==
    /\ steps < MaxSteps
    /\ \E items \in PolledBatches :
         /\ \E r \in _check_for_trades(monitor, detector, now, items) :
              /\ monitor' = [r.monitor EXCEPT !.last_check_time = <<now>>]
              /\ detector' = r.detector
              /\ app' \in OnAlerts({app}, r.alerts)
              /\ call' = << [op |-> "_check_for_trades", items |-> items,
                              cleaned |-> r.cleaned] >>
         /\ observed' = IF "after_timestamp" \in GetRecentTradesParams
                          THEN observed \cup Delivered("rest", items) ELSE observed
    /\ steps' = steps + 1
    /\ UNCHANGED <<scn, engine, hybrid, now>>

\* The stream client connects.
ConnectAndListen ==
    /\ steps < MaxSteps
    /\ hybrid._ws_task = "connecting"
    /\ hybrid' = _connect_and_listen(hybrid)
    /\ call' = << [op |-> "_connect_and_listen", items |-> << >>] >>
    /\ steps' = steps + 1
    /\ UNCHANGED <<scn, detector, engine, monitor, now, observed, app>>

\* A connection attempt fails, or the open connection is closed.
ConnectionLost ==
    /\ steps < MaxSteps
    /\ hybrid._ws_task \in {"connecting", "listening"}
    /\ hybrid' = connect(hybrid)
    /\ call' = << [op |-> "connect", items |-> << >>] >>
    /\ steps' = steps + 1
    /\ UNCHANGED <<scn, detector, engine, monitor, now, observed, app>>

\* The reconnect delay is over.
ReconnectDelayOver ==
    /\ steps < MaxSteps
    /\ hybrid._ws_task = "sleeping"
    /\ hybrid' = reconnect(hybrid)
    /\ call' = << [op |-> "reconnect", items |-> << >>] >>
    /\ steps' = steps + 1
    /\ UNCHANGED <<scn, detector, engine, monitor, now, observed, app>>

\* disconnect() of the stream client.
Disconnect ==
    /\ steps < MaxSteps
    /\ hybrid.ws_running
    /\ hybrid' = disconnect(hybrid)
    /\ call' = << [op |-> "disconnect", items |-> << >>] >>
    /\ steps' = steps + 1
    /\ UNCHANGED <<scn, detector, engine, monitor, now, observed, app>>

\* stop() of the HybridTradeMonitor.
Stop ==
    /\ steps < MaxSteps
    /\ hybrid._running
    /\ hybrid' = stop(hybrid)
    /\ call' = << [op |-> "stop", items |-> << >>] >>
    /\ steps' = steps + 1
    /\ UNCHANGED <<scn, detector, engine, monitor, now, observed, app>>

NextIngest ==
    \/ RunPolling \/ ProcessSingleTrade \/ CheckForTrades
    \/ ConnectAndListen \/ ConnectionLost \/ ReconnectDelayOver \/ Disconnect \/ Stop

SpecIngest == InitIngest /\ [][NextIngest]_vars

(***************************************************************************)
(* Properties of the ingestion                                             *)
(***************************************************************************)
\* The number of calls of analyze_trade so far: every item is a trade of
\* wallet WA on a market that is neither sports nor high-frequency, so each
\* call adds one to the total_trades of that wallet's profile.
Evaluations ==
    IF WA \in DOMAIN detector.wallet_profiles
      THEN detector.wallet_profiles[WA].total_trades ELSE 0

ObservedIds == { o.id : o \in observed }

\* C1: each distinct trade id is passed to analyze_trade exactly once: the
\* number of pipeline evaluations equals the number of unique ids delivered
\* by stream messages and polling rounds so far.
C1_EachIdEvaluatedOnce == Evaluations = Cardinality(ObservedIds)

\* C2: a venue event delivered once by the stream and once by polling is
\* given the same trade id by both, so that the seen set holds the id of the
\* second delivery when it arrives.
C2_SameIdAcrossSources ==
    \A o1, o2 \in observed : o1.item = o2.item => o1.id = o2.id

\* The stream client gave up reconnecting and the controller was not stopped.
StreamDead == hybrid._running /\ hybrid._reconnect_attempts > MaxReconnectAttempts

\* The trades of a polled batch whose id is not in the seen set.
NewlyPolled(items) ==
    Cardinality({ i \in 1..Len(items) : rest_trade_id(items[i]) \notin hybrid.seen_trades })

\* C15: when the streaming client exhausts max_reconnect_attempts it stops
\* reconnecting, and this is fatal for the streaming source only: the loss of
\* a connection never stops the controller, the stream is dead only with
\* more than max_reconnect_attempts attempts and then stays so, and while it
\* is dead the polling round stays enabled (the controller is running and
\* the round has an outcome) and passes what it newly polled to
\* analyze_trade, until stop() is called.
C15_StreamDeathLeavesPolling ==
    /\ [](hybrid.ws_running => hybrid._reconnect_attempts <= MaxReconnectAttempts)
    /\ [][ /\ (call' # << >> /\ call'[1].op = "connect") =>
                /\ hybrid'._running = hybrid._running
                /\ (hybrid.ws_running /\ ~hybrid'.ws_running)
                      => hybrid'._reconnect_attempts > MaxReconnectAttempts
           /\ StreamDead => /\ ~hybrid'.ws_running /\ ~hybrid'.connected
                            /\ hybrid'._reconnect_attempts = hybrid._reconnect_attempts
           /\ (StreamDead /\ call' # << >> /\ call'[1].op = "_run_polling")
                => /\ Evaluations' <= Evaluations + NewlyPolled(call'[1].items)
                   /\ NewlyPolled(call'[1].items) > 0 => Evaluations' > Evaluations
           /\ ~hybrid._running =>
                hybrid'.poll_trades_processed = hybrid.poll_trades_processed ]_vars
    /\ []((StreamDead /\ steps < MaxSteps) =>
            \E items \in PolledBatches :
               _run_polling(hybrid, detector, now + 1, items) # {})

\* The stream is dead and the polling round that followed evaluated a trade.
C15_Witness ==
    /\ StreamDead
    /\ call # << >>
    /\ call[1].op = "_run_polling"
    /\ hybrid.poll_trades_processed > 0
    /\ Evaluations > 0

\* The ids of the trades of a polled batch.
PolledIds(items) == { rest_trade_id(items[i]) : i \in 1..Len(items) }

\* C16: an exception raised while analysing one trade does not escape that
\* trade's step: a polling round passes every trade of its batch whose id is
\* not in the seen set to analyze_trade, whichever of them raises, and the
\* ids of the batch are in the seen set afterwards (unless the set is cut).
C16_ExceptionStaysInTradeStep ==
    [][ (call' # << >> /\ call'[1].op = "_run_polling")
          => /\ Evaluations' = Evaluations + NewlyPolled(call'[1].items)
             /\ Cardinality(hybrid.seen_trades \cup PolledIds(call'[1].items)) <= 4 * SeenUnit
                  => PolledIds(call'[1].items) \subseteq hybrid'.seen_trades ]_vars

\* C17: a failure of the store does not block the emission of an alert: every
\* alert a polling round hands to on_alert_detected is sent by the alerter,
\* whether save_alert returned or raised.
C17_StoreFailureDoesNotBlockSend ==
    [][ (call' # << >> /\ call'[1].op = "_run_polling")
          => app'.sent = app.sent \o call'[1].alerts ]_vars

\* on_alert_detected keeps every alert it is given in recent_alerts, newest
\* first, and sends exactly the alerts whose row is in the alerts table.
C17_SentIffSaved ==
    /\ Len(app.recent_alerts) = hybrid.poll_alerts_generated
    /\ { app.sent[i].trade.id : i \in DOMAIN app.sent } = app.alerts_table
    /\ \A i \in DOMAIN app.sent : app.sent[i] \in Range(app.recent_alerts)

\* The detectors analyze_trade leaves when the stream's trade of the item is
\* analysed in one piece from the present state.
AnalysedAtOnce(item) ==
    { r.detector : r \in analyze_trade(detector, now, ItemTrade(item, ws_trade_id(item)),
                                       item.title) }

\* C18: the per-trade step is atomic with respect to the two ingestion tasks:
\* a trade of the stream with an unseen id is analysed in one piece from the
\* state the polling rounds before it have left, so that the state of the
\* wallet after trades of both tasks is that of analysing them one after the
\* other.
C18_SerialPerTradeStep ==
    [][ ( /\ call' # << >>
          /\ call'[1].op = "_process_single_trade"
          /\ ws_trade_id(call'[1].items[1]) \notin hybrid.seen_trade_ids )
          => detector' \in AnalysedAtOnce(call'[1].items[1]) ]_vars

\* C20: after any sequence of observed trades the total volume of every
\* wallet profile is the sum of its buy volume and its sell volume.
C20_VolumeIsBuyPlusSell ==
    \A w \in DOMAIN detector.wallet_profiles :
        detector.wallet_profiles[w].total_volume_usd
          = detector.wallet_profiles[w].buy_volume_usd
              + detector.wallet_profiles[w].sell_volume_usd

\* C21: in every reachable state of the ingestion the dedup set holds at most
\* 100,000 ids (four units), the set of the streaming client and that of the
\* polling loop alike.
C21_DedupSetBounded ==
    /\ Cardinality(hybrid.seen_trade_ids) <= 4 * SeenUnit
    /\ Cardinality(hybrid.seen_trades) <= 4 * SeenUnit

\* C26: the streaming reader and the polling loop check and insert into one
\* and the same dedup set: after any sequence of stream trades, polls and
\* trims, seen_trades and the client's seen_trade_ids are one set object, so
\* that an id inserted by one task is present for the other.
C26_OneDedupSet ==
    /\ hybrid.shared
    /\ hybrid.seen_trades = hybrid.seen_trade_ids

\* C27: when a dedup set exceeds its cap and is trimmed, the ids kept are the
\* most recently inserted ones: the id a stream message inserted, and the ids
\* a polling round or a monitor round inserted (no more of them than a trim
\* keeps), are in the set after the step, trimmed or not.
C27_TrimKeepsNewestIds ==
    [][ call' # << >> =>
          /\ call'[1].op = "_process_single_trade"
               => ws_trade_id(call'[1].items[1]) \in hybrid'.seen_trade_ids
          /\ call'[1].op = "_run_polling"
               => PolledIds(call'[1].items) \subseteq hybrid'.seen_trades
          /\ (call'[1].op = "_check_for_trades" /\ monitor'.seen_trades # monitor.seen_trades)
               => PolledIds(call'[1].items) \subseteq monitor'.seen_trades
      ]_vars

\* C28: after an explicit stop (disconnect()) issued in any connection state
\* (connecting, subscribed, receiving, or waiting to reconnect) the streaming
\* client ends in Disconnected: once its _running is false its socket is
\* never open again, so that no connection is made and no trade is forwarded
\* to on_trade.
C28_DisconnectedAfterStop ==
    ~hybrid.ws_running => ~hybrid.connected

\* The step is a polling round, of the HybridTradeMonitor or of the
\* TradeMonitor, that analysed new trades (the detector changed).
PollingRoundWithTrades ==
    /\ call' # << >>
    /\ call'[1].op \in {"_run_polling", "_check_for_trades"}
    /\ detector' # detector

\* C37: while the ingestion controller runs, in hybrid stream+poll mode as
\* well as in polling-only mode, the wallet cleanup is invoked periodically:
\* every polling round that analysed new trades has called
\* cleanup_inactive_wallets, so that a store above min_wallets_before_cleanup
\* loses its profiles inactive for more than max_inactive_days.
C37_PollingInvokesCleanup == [][PollingRoundWithTrades => call'[1].cleaned]_vars

\* The step is a polling round of the HybridTradeMonitor in which the fetch
\* of one client failed.
RoundWithFailedFetch ==
    /\ call' # << >>
    /\ call'[1].op = "_run_polling"
    /\ \E i \in 1..Len(call'[1].responses) : call'[1].responses[i].failed

\* Positions, in the items fetched by the other clients, of the trades the
\* controller had not seen before the round.
NewlyFetched ==
    { i \in 1..Len(call'[1].items) :
        rest_trade_id(call'[1].items[i]) \notin hybrid.seen_trades }

\* Trades of the wallet of the items that the detector has processed.
ProcessedTrades(d) ==
    IF WA \in DOMAIN d.wallet_profiles THEN d.wallet_profiles[WA].total_trades ELSE 0

\* C38: a transient failure while fetching trades from one venue client
\* during a poll cycle does not break ingestion: the other clients are still
\* polled in the same cycle, before and after the failing one, and the trades
\* they return are evaluated (all of them, unless the analysis itself raises
\* on an offset-aware timestamp stored earlier); the controller keeps
\* running, so the loop polls again at the next interval.  A failed round of
\* the TradeMonitor leaves its dedup set and the detector as they were.
C38_FetchFailureKeepsIngesting ==
    [][ /\ RoundWithFailedFetch =>
             /\ hybrid'._running
             /\ NewlyFetched # {} => ProcessedTrades(detector') > ProcessedTrades(detector)
             /\ AwareEntries(Get(detector.recent_market_trades, MPol.market_id, << >>)) = {}
                  => /\ ProcessedTrades(detector')
                          = ProcessedTrades(detector) + Cardinality(NewlyFetched)
                     /\ hybrid'.poll_trades_processed
                          = hybrid.poll_trades_processed + Cardinality(NewlyFetched)
        /\ ( /\ call' # << >>
             /\ call'[1].op = "_check_for_trades"
             /\ ~call'[1].cleaned )
             => /\ detector' = detector
                /\ monitor'.seen_trades = monitor.seen_trades ]_vars

\* After a round in which the second client failed, both trades of the
\* first client are counted; the controller is running.
C38_Witness ==
    /\ call # << >>
    /\ call[1].op = "_run_polling"
    /\ Len(call[1].responses) = 2
    /\ call[1].responses[2].failed
    /\ Len(call[1].items) = 2
    /\ hybrid.poll_trades_processed >= 2
    /\ ProcessedTrades(detector) >= 2
    /\ hybrid._running

====
